---- MODULE Spec2Model ----
(***************************************************************************)
(* FleetOps simulation core: Robot, FleetManager, MissionManager and       *)
(* SimulationEngine, modelled as a state machine.                          *)
(*                                                                         *)
(* Robot ids "robot-001", "robot-002", ... are the integers 1, 2, ... (the *)
(* Map keeps them in creation order); mission ids "mission-xxxxxxxx" are   *)
(* positive integers; Null (0) is null/undefined for an id and NoTime (-1) *)
(* an unset Date.  Times are milliseconds.                                 *)
(***************************************************************************)
EXTENDS Integers, Sequences, FiniteSets, TLC

\* ------------------------------------------------------------------ bounds
\* robots in the fleet: initializeFleet(NumRobots)
NumRobots == 2
\* mission ids the generator hands out in one run
MaxMissions == 4
\* the clock advances in steps of TimeStep ms
TimeStep == 10000
\* the clock stops here while the engine runs: two generation ticks, and a
\* robot of the first can be DELIVERING
MaxTime == 170000
\* the clock stops here while the engine has not been started
MaxWait == 10000
\* the clock stops here in a run without calls from outside
MaxCycleTime == 460000
\* robots in the fleet of a run without calls from outside
MaxCycleRobots == 1
\* calls from outside in one run of a running engine
MaxCalls == 2
\* calls in one run on the objects themselves, the engine not started
MaxApiCalls == 5
\* mission ids the generator hands out while the engine has not been started
MaxApiMissions == 1
\* missions created in a run of registry calls that ends in cleanups
MaxCleanupMissions == 2
\* start() and stop() calls in one run
MaxLifecycleCalls == 3
\* values the 8-digit prefix of a uuid takes in a run (16^8 in the program)
MaxUuids == 3
\* the clock stops here in a run with cancellations of both kinds
MaxRaceTime == 130000
\* robots of the RobotService that are free to take missions (the program
\* builds 100; the others are taken to be busy throughout)
ServiceRobots == 1
\* the clock of a run of the services advances in steps of ServiceStep ms
ServiceStep == 5000
\* the clock stops here in a run of the services: one creation tick
MaxServiceTime == 60000
\* calls from outside in one run of the services
MaxServiceCalls == 2
\* missions created in a burst of creations and assignments
MaxBurstMissions == 3
\* the clock stops here during a burst
MaxBurstTime == 30000
\* missions created in a run of assignments, cancellations and queries
MaxIntegrityMissions == 2
\* the clock runs this long before the engine is stopped for an hour
MaxAwakeTime == 70000
\* the clock stops here in a run of all three callbacks with cancellations:
\* the first cleanup, after a robot can have been through a whole mission
MaxWholeTime == 310000

\* ------------------------------------------------------- program constants
Null == 0
NoTime == 0 - 1

RobotIds == 1..NumRobots
\* ids a caller may pass: every registered robot plus one that is not
AnyRobotId == 1..(NumRobots + 1)
\* ids a caller may pass: every id createMission can produce plus one it cannot
AnyMissionId == 1..(MaxApiMissions + 1)

RobotStatus == {"idle", "assigned", "en_route", "delivering", "completed"}
MissionStatus == {"created", "assigned", "in_progress", "completed", "cancelled"}

VARIABLES
  calls,                \* calls made from outside the engine so far
  robots,               \* FleetManager.robots: robot id -> Robot fields
  missions,             \* MissionManager.missions: mission id -> Mission
  now,                  \* Date.now()
  nextId,               \* number of mission ids handed out so far, plus one
  isSimulationRunning,  \* SimulationEngine.isSimulationRunning
  missionGenerationTimer, \* due time of the armed interval, NoTime when null
  stateTransitionTimer,
  cleanupTimer,
  intervals,            \* live setInterval instances of each callback
  emitted,              \* notifications emitted by the last call, in order
  lastCall,             \* the last call made: operation, arguments, outcome
  robotService,         \* RobotService.robots: robot id -> status, mission
  missionService,       \* MissionService.missions: mission id -> Mission
  missionCounter,       \* MissionService.missionCounter
  missionCreationInterval,   \* due time of the interval, NoTime when unset
  missionProcessingInterval,
  timeouts,             \* the setTimeout callbacks that have not run yet
  returned,             \* the Mission object a caller holds: its id, or Null
  seen                  \* what the caller read from that object when it got it

vars == <<calls, robots, missions, now, nextId, isSimulationRunning,
          missionGenerationTimer, stateTransitionTimer, cleanupTimer,
          intervals, emitted, lastCall, robotService, missionService,
          missionCounter, missionCreationInterval, missionProcessingInterval,
          timeouts, returned, seen>>

\* what a caller of the registries holds on to
views == <<returned, seen>>

\* the state of a RobotService and the MissionService built on it
services == <<robotService, missionService, missionCounter,
              missionCreationInterval, missionProcessingInterval, timeouts>>

\* ------------------------------------------------------------ call context
\* The part of the state a call reads and writes while it runs: w.error is
\* TRUE once an Error has been thrown and not caught, w.ret the value
\* returned by the last completed callee.
World(r, m) ==
  [robots |-> r, missions |-> m, emitted |-> <<>>, error |-> FALSE, ret |-> Null]

Throw(w) == [w EXCEPT !.error = TRUE]

Return(w, v) == [w EXCEPT !.ret = v]

Has(w, missionId) == missionId \in DOMAIN w.missions

\* -------------------------------------------------------------- MissionManager
NewMission(id) ==
  [status |-> "created", createdAt |-> now, assignedAt |-> NoTime,
   startedAt |-> NoTime, completedAt |-> NoTime, cancelledAt |-> NoTime,
   robotId |-> Null]

\* Map.set: adds the key, or replaces the value of an existing key
MapSet(m, k, v) == [x \in DOMAIN m \cup {k} |-> IF x = k THEN v ELSE m[x]]

\* createMission with the id the uuid generator produced
MissionManager_createMission(w, id) ==
  Return([w EXCEPT !.missions = MapSet(w.missions, id, NewMission(id))], id)

\* assignMission that does not record the robot
MissionManager_assignMission_noRobot(w, missionId, robotId) ==
  IF ~Has(w, missionId) THEN Throw(w)
  ELSE IF w.missions[missionId].status # "created" THEN Throw(w)
  ELSE [w EXCEPT !.missions[missionId].status = "assigned",
                 !.missions[missionId].assignedAt = now]

MissionManager_assignMission(w, missionId, robotId) ==
  IF ~Has(w, missionId) THEN Throw(w)
  ELSE IF w.missions[missionId].status # "created" THEN Throw(w)
  ELSE [w EXCEPT !.missions[missionId].status = "assigned",
                 !.missions[missionId].assignedAt = now,
                 !.missions[missionId].robotId = robotId]

\* startMission without the status check
MissionManager_startMission_anyStatus(w, missionId) ==
  IF ~Has(w, missionId) THEN Throw(w)
  ELSE [w EXCEPT !.missions[missionId].status = "in_progress",
                 !.missions[missionId].startedAt = now]

MissionManager_startMission(w, missionId) ==
  IF ~Has(w, missionId) THEN Throw(w)
  ELSE IF w.missions[missionId].status # "assigned" THEN Throw(w)
  ELSE [w EXCEPT !.missions[missionId].status = "in_progress",
                 !.missions[missionId].startedAt = now]

\* completeMission that stamps completedAt with the creation time
MissionManager_completeMission_stampCreated(w, missionId) ==
  IF ~Has(w, missionId) THEN Throw(w)
  ELSE IF w.missions[missionId].status # "in_progress" THEN Throw(w)
  ELSE [w EXCEPT !.missions[missionId].status = "completed",
                 !.missions[missionId].completedAt = w.missions[missionId].createdAt]

\* completeMission without the status check
MissionManager_completeMission_anyStatus(w, missionId) ==
  IF ~Has(w, missionId) THEN Throw(w)
  ELSE [w EXCEPT !.missions[missionId].status = "completed",
                 !.missions[missionId].completedAt = now]

MissionManager_completeMission(w, missionId) ==
  IF ~Has(w, missionId) THEN Throw(w)
  ELSE IF w.missions[missionId].status # "in_progress" THEN Throw(w)
  ELSE [w EXCEPT !.missions[missionId].status = "completed",
                 !.missions[missionId].completedAt = now]

\* cancelMission without the check for a finished mission
MissionManager_cancelMission_again(w, missionId) ==
  IF ~Has(w, missionId) THEN Throw(w)
  ELSE [w EXCEPT !.missions[missionId].status = "cancelled",
                 !.missions[missionId].cancelledAt = now]

\* cancelMission that stamps the mission before it looks at the status
MissionManager_cancelMission_stampFirst(w, missionId) ==
  IF ~Has(w, missionId) THEN Throw(w)
  ELSE LET w1 == [w EXCEPT !.missions[missionId].cancelledAt = now] IN
       IF w.missions[missionId].status \in {"completed", "cancelled"} THEN w1
       ELSE [w1 EXCEPT !.missions[missionId].status = "cancelled"]

\* cancelMission that rejects a mission that has ended
MissionManager_cancelMission_strict(w, missionId) ==
  IF ~Has(w, missionId) THEN Throw(w)
  ELSE IF w.missions[missionId].status \in {"completed", "cancelled"} THEN Throw(w)
  ELSE [w EXCEPT !.missions[missionId].status = "cancelled",
                 !.missions[missionId].cancelledAt = now]

MissionManager_cancelMission(w, missionId) ==
  IF ~Has(w, missionId) THEN Throw(w)
  ELSE IF w.missions[missionId].status \in {"completed", "cancelled"} THEN w
  ELSE [w EXCEPT !.missions[missionId].status = "cancelled",
                 !.missions[missionId].cancelledAt = now]

\* ------------------------------------------------------------------ events
\* emit(event, data) calls the listeners registered with on(event, ...) one
\* after the other, in the emitting call, and an Error thrown by a listener
\* is thrown by emit.
Emit(w, event, robotId, status, missionId) ==
  [w EXCEPT !.emitted = Append(@, [event |-> event, robotId |-> robotId,
                                   status |-> status, missionId |-> missionId])]

\* Robot 'statusChanged' -> FleetManager 'robotStatusChanged'
\*                       -> SimulationEngine 'robotStatusChanged'
EmitStatusChanged(w, r, missionId) ==
  Emit(w, "statusChanged", r, w.robots[r].status, missionId)

\* the engine forwarding 'missionCancelled' without cancelling the mission
EmitMissionCancelled_forwardOnly(w, r, missionId) ==
  Emit(w, "missionCancelled", r, Null, missionId)

\* Robot 'missionCancelled' -> FleetManager 'robotMissionCancelled'
\*   -> SimulationEngine: missionManager.cancelMission(data.missionId), then
\*      emit 'missionCancelled'
EmitMissionCancelled(w, r, missionId) ==
  MissionManager_cancelMission(Emit(w, "missionCancelled", r, Null, missionId),
                               missionId)

\* ------------------------------------------------------------------- Robot
NewRobot == [status |-> "idle", currentMissionId |-> Null,
             createdAt |-> 0, lastUpdated |-> 0]

updateTimestamp(w, r) == [w EXCEPT !.robots[r].lastUpdated = now]

\* assignMission that stamps the robot before it checks the status
Robot_assignMission_stampFirst(w, r, missionId) ==
  IF w.robots[r].status # "idle" THEN Return(updateTimestamp(w, r), FALSE)
  ELSE LET w1 == [w EXCEPT !.robots[r].status = "assigned",
                           !.robots[r].currentMissionId = missionId]
       IN  Return(EmitStatusChanged(updateTimestamp(w1, r), r, missionId), TRUE)

Robot_assignMission(w, r, missionId) ==
  IF w.robots[r].status # "idle" THEN Return(w, FALSE)
  ELSE LET w1 == [w EXCEPT !.robots[r].status = "assigned",
                           !.robots[r].currentMissionId = missionId]
       IN  Return(EmitStatusChanged(updateTimestamp(w1, r), r, missionId), TRUE)

Robot_startMission(w, r) ==
  IF w.robots[r].status # "assigned" THEN Throw(w)
  ELSE LET w1 == [w EXCEPT !.robots[r].status = "en_route"]
       IN  EmitStatusChanged(updateTimestamp(w1, r), r,
                             w1.robots[r].currentMissionId)

\* startDelivering that also accepts an ASSIGNED robot
Robot_startDelivering_fromAssigned(w, r) ==
  IF w.robots[r].status \notin {"assigned", "en_route"} THEN Throw(w)
  ELSE LET w1 == [w EXCEPT !.robots[r].status = "delivering"]
       IN  EmitStatusChanged(updateTimestamp(w1, r), r,
                             w1.robots[r].currentMissionId)

Robot_startDelivering(w, r) ==
  IF w.robots[r].status # "en_route" THEN Throw(w)
  ELSE LET w1 == [w EXCEPT !.robots[r].status = "delivering"]
       IN  EmitStatusChanged(updateTimestamp(w1, r), r,
                             w1.robots[r].currentMissionId)

Robot_completeMission(w, r) ==
  IF w.robots[r].status # "delivering" THEN Throw(w)
  ELSE LET w1 == [w EXCEPT !.robots[r].status = "completed"]
       IN  EmitStatusChanged(updateTimestamp(w1, r), r,
                             w1.robots[r].currentMissionId)

Robot_returnToIdle(w, r) ==
  IF w.robots[r].status # "completed" THEN Throw(w)
  ELSE LET w1 == [w EXCEPT !.robots[r].status = "idle",
                           !.robots[r].currentMissionId = Null]
       IN  EmitStatusChanged(updateTimestamp(w1, r), r, Null)

\* cancelCurrentMission that leaves the mission id in place
Robot_cancelCurrentMission_keepsId(w, r) ==
  IF w.robots[r].status = "idle" THEN w
  ELSE LET cancelledMissionId == w.robots[r].currentMissionId
           w1 == [w EXCEPT !.robots[r].status = "idle"]
           w2 == EmitMissionCancelled(updateTimestamp(w1, r), r,
                                      cancelledMissionId)
       IN  IF w2.error THEN w2 ELSE EmitStatusChanged(w2, r, Null)

\* cancelCurrentMission that emits 'statusChanged' before 'missionCancelled'
Robot_cancelCurrentMission_statusFirst(w, r) ==
  IF w.robots[r].status = "idle" THEN w
  ELSE LET cancelledMissionId == w.robots[r].currentMissionId
           w1 == [w EXCEPT !.robots[r].status = "idle",
                           !.robots[r].currentMissionId = Null]
       IN  EmitMissionCancelled(EmitStatusChanged(updateTimestamp(w1, r), r, Null),
                                r, cancelledMissionId)

\* cancelCurrentMission that emits 'statusChanged' only
Robot_cancelCurrentMission_noCancelEvent(w, r) ==
  IF w.robots[r].status = "idle" THEN w
  ELSE LET w1 == [w EXCEPT !.robots[r].status = "idle",
                           !.robots[r].currentMissionId = Null]
       IN  EmitStatusChanged(updateTimestamp(w1, r), r, Null)

Robot_cancelCurrentMission(w, r) ==
  IF w.robots[r].status = "idle" THEN w
  ELSE LET cancelledMissionId == w.robots[r].currentMissionId
           w1 == [w EXCEPT !.robots[r].status = "idle",
                           !.robots[r].currentMissionId = Null]
           w2 == EmitMissionCancelled(updateTimestamp(w1, r), r,
                                      cancelledMissionId)
       IN  IF w2.error THEN w2 ELSE EmitStatusChanged(w2, r, Null)

\* ------------------------------------------------------------ FleetManager
\* Array.from(this.robots.values()): the robots in insertion order
getAllRobots == [i \in 1..Cardinality(DOMAIN robots) |-> i]

HasStatus(w, s, r) == w.robots[r].status = s

getRobotsByStatus(w, s) == SelectSeq(getAllRobots, LAMBDA r : HasStatus(w, s, r))

getAvailableRobots(w) == getRobotsByStatus(w, "idle")

getActiveRobots(w) == SelectSeq(getAllRobots, LAMBDA r : ~HasStatus(w, "idle", r))

\* assignMissionToAvailableRobot that tries the first robot of the fleet only
FleetManager_assignMissionToAvailableRobot_firstRobot(w, missionId) ==
  LET availableRobots == getAvailableRobots(w) IN
  IF Len(availableRobots) = 0 THEN Return(w, Null)
  ELSE LET selectedRobot == getAllRobots[1]
           w1 == Robot_assignMission(w, selectedRobot, missionId)
       IN  IF w1.ret = TRUE THEN Return(w1, selectedRobot)
           ELSE Return(w1, Null)

\* assignMissionToAvailableRobot that selects the last available robot
FleetManager_assignMissionToAvailableRobot_lastAvailable(w, missionId) ==
  LET availableRobots == getAvailableRobots(w) IN
  IF Len(availableRobots) = 0 THEN Return(w, Null)
  ELSE LET selectedRobot == availableRobots[Len(availableRobots)]
           w1 == Robot_assignMission(w, selectedRobot, missionId)
       IN  IF w1.ret = TRUE THEN Return(w1, selectedRobot)
           ELSE Return(w1, Null)

FleetManager_assignMissionToAvailableRobot(w, missionId) ==
  LET availableRobots == getAvailableRobots(w) IN
  IF Len(availableRobots) = 0 THEN Return(w, Null)
  ELSE LET selectedRobot == availableRobots[1]
           w1 == Robot_assignMission(w, selectedRobot, missionId)
       IN  IF w1.ret = TRUE THEN Return(w1, selectedRobot)
           ELSE Return(w1, Null)

\* cancelRobotMission that reports whether a mission was cancelled
FleetManager_cancelRobotMission_ifCancelled(w, robotId) ==
  IF robotId \notin DOMAIN w.robots THEN Return(w, FALSE)
  ELSE LET w1 == Robot_cancelCurrentMission(w, robotId)
       IN  IF w1.error THEN w1 ELSE Return(w1, w.robots[robotId].status # "idle")

FleetManager_cancelRobotMission(w, robotId) ==
  IF robotId \notin DOMAIN w.robots THEN Return(w, FALSE)
  ELSE LET w1 == Robot_cancelCurrentMission(w, robotId)
       IN  IF w1.error THEN w1 ELSE Return(w1, TRUE)

Count(w, s) == Cardinality({r \in DOMAIN w.robots : w.robots[r].status = s})

\* getFleetStatistics whose switch has no case for COMPLETED
getFleetStatistics_noCompleted(w) ==
  [total |-> Cardinality(DOMAIN w.robots),
   idle |-> Count(w, "idle"), assigned |-> Count(w, "assigned"),
   en_route |-> Count(w, "en_route"), delivering |-> Count(w, "delivering"),
   completed |-> 0]

getFleetStatistics(w) ==
  [total |-> Cardinality(DOMAIN w.robots),
   idle |-> Count(w, "idle"), assigned |-> Count(w, "assigned"),
   en_route |-> Count(w, "en_route"), delivering |-> Count(w, "delivering"),
   completed |-> Count(w, "completed")]

\* ---------------------------------------------------------------- TimeUtils
\* Math.floor(Math.random() * (max - min + 1)) + min: any integer of
\* min..max.  The clock moves in steps of TimeStep, so the model draws the
\* values of min..max on that grid, and max.
getRandomDuration(min, max) ==
  {min + k * TimeStep : k \in 0..((max - min) \div TimeStep)} \cup {max}

\* --------------------------------------------------------- SimulationEngine
MISSION_GENERATION_INTERVAL == 60 * 1000
STATE_TRANSITION_INTERVAL == 10 * 1000
CLEANUP_INTERVAL == 5 * 60 * 1000
CLEANUP_MAX_AGE == 60 * 60 * 1000
MISSIONS_PER_TICK == 2

STATE_DURATIONS ==
  [ASSIGNED_TO_EN_ROUTE |-> [min |-> 30000, max |-> 60000],
   EN_ROUTE_TO_DELIVERING |-> [min |-> 60000, max |-> 120000],
   DELIVERING_TO_COMPLETED |-> [min |-> 120000, max |-> 300000],
   COMPLETED_TO_IDLE |-> [min |-> 10000, max |-> 30000]]

AssignedBody(w, robot) ==
  LET missionId == w.robots[robot].currentMissionId IN
  IF missionId = Null THEN {w}
  ELSE IF ~Has(w, missionId) \/ w.missions[missionId].assignedAt = NoTime THEN {w}
  ELSE LET timeInState == now - w.missions[missionId].assignedAt IN
       {IF timeInState >= transitionDelay
        THEN LET w1 == Robot_startMission(w, robot)
             IN  IF w1.error THEN w1 ELSE MissionManager_startMission(w1, missionId)
        ELSE w
        : transitionDelay \in getRandomDuration(STATE_DURATIONS.ASSIGNED_TO_EN_ROUTE.min,
                                                STATE_DURATIONS.ASSIGNED_TO_EN_ROUTE.max)}

EnRouteBody(w, robot) ==
  LET missionId == w.robots[robot].currentMissionId IN
  IF missionId = Null THEN {w}
  ELSE IF ~Has(w, missionId) \/ w.missions[missionId].startedAt = NoTime THEN {w}
  ELSE LET timeInState == now - w.missions[missionId].startedAt IN
       {IF timeInState >= transitionDelay THEN Robot_startDelivering(w, robot)
        ELSE w
        : transitionDelay \in getRandomDuration(STATE_DURATIONS.EN_ROUTE_TO_DELIVERING.min,
                                                STATE_DURATIONS.EN_ROUTE_TO_DELIVERING.max)}

\* a loop body that waits for the completion time of the mission
DeliveringBody_sinceCompleted(w, robot) ==
  LET missionId == w.robots[robot].currentMissionId IN
  IF missionId = Null THEN {w}
  ELSE IF ~Has(w, missionId) \/ w.missions[missionId].completedAt = NoTime THEN {w}
  ELSE LET timeInState == now - w.missions[missionId].completedAt IN
       {IF timeInState >= transitionDelay
        THEN LET w1 == Robot_completeMission(w, robot)
             IN  IF w1.error THEN w1 ELSE MissionManager_completeMission(w1, missionId)
        ELSE w
        : transitionDelay \in getRandomDuration(STATE_DURATIONS.DELIVERING_TO_COMPLETED.min,
                                                STATE_DURATIONS.DELIVERING_TO_COMPLETED.max)}

\* a loop body that completes the robot and not the mission
DeliveringBody_robotOnly(w, robot) ==
  LET missionId == w.robots[robot].currentMissionId IN
  IF missionId = Null THEN {w}
  ELSE IF ~Has(w, missionId) \/ w.missions[missionId].startedAt = NoTime THEN {w}
  ELSE LET timeInState == now - w.missions[missionId].startedAt IN
       {IF timeInState >= transitionDelay THEN Robot_completeMission(w, robot)
        ELSE w
        : transitionDelay \in getRandomDuration(STATE_DURATIONS.DELIVERING_TO_COMPLETED.min,
                                                STATE_DURATIONS.DELIVERING_TO_COMPLETED.max)}

DeliveringBody(w, robot) ==
  LET missionId == w.robots[robot].currentMissionId IN
  IF missionId = Null THEN {w}
  ELSE IF ~Has(w, missionId) \/ w.missions[missionId].startedAt = NoTime THEN {w}
  ELSE LET timeInState == now - w.missions[missionId].startedAt IN
       {IF timeInState >= transitionDelay
        THEN LET w1 == Robot_completeMission(w, robot)
             IN  IF w1.error THEN w1 ELSE MissionManager_completeMission(w1, missionId)
        ELSE w
        : transitionDelay \in getRandomDuration(STATE_DURATIONS.DELIVERING_TO_COMPLETED.min,
                                                STATE_DURATIONS.DELIVERING_TO_COMPLETED.max)}

CompletedBody(w, robot) ==
  LET missionId == w.robots[robot].currentMissionId IN
  IF missionId = Null THEN {w}
  ELSE IF ~Has(w, missionId) \/ w.missions[missionId].completedAt = NoTime THEN {w}
  ELSE LET timeInState == now - w.missions[missionId].completedAt IN
       {IF timeInState >= transitionDelay THEN Robot_returnToIdle(w, robot)
        ELSE w
        : transitionDelay \in getRandomDuration(STATE_DURATIONS.COMPLETED_TO_IDLE.min,
                                                STATE_DURATIONS.COMPLETED_TO_IDLE.max)}

\* the loop body of processAssignedRobots, processEnRouteRobots,
\* processDeliveringRobots or processCompletedRobots
Body(status, w, robot) ==
  CASE status = "assigned" -> AssignedBody(w, robot)
    [] status = "en_route" -> EnRouteBody(w, robot)
    [] status = "delivering" -> DeliveringBody(w, robot)
    [] status = "completed" -> CompletedBody(w, robot)

\* for (const robot of list) body(robot), over every outcome of the random
\* draws: ws is the set of contexts the loop can be in before the next robot.
\* A context in which an Error is in flight runs no further iteration.
RECURSIVE ForEach(_, _, _)
ForEach(ws, list, status) ==
  IF list = <<>> THEN ws
  ELSE ForEach(UNION {IF w.error THEN {w} ELSE Body(status, w, Head(list)) : w \in ws},
               Tail(list), status)

processAssignedRobots(w) ==
  ForEach({w}, getRobotsByStatus(w, "assigned"), "assigned")

processEnRouteRobots(w) ==
  ForEach({w}, getRobotsByStatus(w, "en_route"), "en_route")

processDeliveringRobots(w) ==
  ForEach({w}, getRobotsByStatus(w, "delivering"), "delivering")

processCompletedRobots(w) ==
  ForEach({w}, getRobotsByStatus(w, "completed"), "completed")

\* a block without its catch: the Error leaves the callback
Catch_rethrow(w) == [w EXCEPT !.ret = w.error]

\* try { ... } catch (error) { logger.error(...) }: the Error ends the block,
\* what the block did before it stays done; w.ret tells whether one was caught
Catch(w) == [w EXCEPT !.error = FALSE, !.ret = w.error]

\* a step of a try block: skipped once an Error is in flight
Guarded(ws, status) ==
  UNION {IF w.error THEN {w}
         ELSE CASE status = "assigned" -> processAssignedRobots(w)
                [] status = "en_route" -> processEnRouteRobots(w)
                [] status = "delivering" -> processDeliveringRobots(w)
                [] OTHER -> processCompletedRobots(w) : w \in ws}

processStateTransitions(w) ==
  {Catch(w4) :
     w4 \in Guarded(Guarded(Guarded(Guarded({w}, "assigned"), "en_route"),
                            "delivering"),
                    "completed")}

\* an iteration that creates the mission only when a robot is available
GenerateOne_whenAvailable(w, id) ==
  LET w1 == MissionManager_createMission(w, id)
      w2 == FleetManager_assignMissionToAvailableRobot(w1, id)
      robot == w2.ret
      w3 == MissionManager_assignMission(w2, id, robot)
  IN  IF Len(getAvailableRobots(w)) = 0 THEN Return(w, Null)
      ELSE IF robot = Null THEN w2
      ELSE IF w3.error THEN w3
      ELSE Emit(w3, "missionAssigned", robot, Null, id)

\* an iteration that binds the robot and leaves the mission as it is
GenerateOne_robotOnly(w, id) ==
  LET w1 == MissionManager_createMission(w, id)
      w2 == FleetManager_assignMissionToAvailableRobot(w1, id)
      robot == w2.ret
  IN  IF robot = Null THEN w2
      ELSE Emit(w2, "missionAssigned", robot, Null, id)

\* an iteration that offers the oldest mission still waiting to the robot
GenerateOne_oldestFirst(w, id) ==
  LET w1 == MissionManager_createMission(w, id)
      oldest == CHOOSE m \in DOMAIN w1.missions :
                  /\ w1.missions[m].status = "created"
                  /\ \A x \in DOMAIN w1.missions :
                       w1.missions[x].status = "created" => m <= x
      w2 == FleetManager_assignMissionToAvailableRobot(w1, oldest)
      robot == w2.ret
      w3 == MissionManager_assignMission(w2, oldest, robot)
  IN  IF robot = Null THEN w2
      ELSE IF w3.error THEN w3
      ELSE Emit(w3, "missionAssigned", robot, Null, oldest)

\* one iteration of the loop of generateMissions, the new mission getting id
GenerateOne(w, id) ==
  LET w1 == MissionManager_createMission(w, id)
      w2 == FleetManager_assignMissionToAvailableRobot(w1, id)
      robot == w2.ret
      w3 == MissionManager_assignMission(w2, id, robot)
  IN  IF robot = Null THEN w2
      ELSE IF w3.error THEN w3
      ELSE Emit(w3, "missionAssigned", robot, Null, id)

\* generateMissions that creates one mission and assigns it in both iterations
generateMissions_oneMission(w, ids) ==
  LET w1 == GenerateOne(w, ids[1])
      w2 == IF w1.error THEN w1 ELSE GenerateOne(w1, ids[1])
  IN  Catch(w2)

\* ids: the ids the uuid generator produces for the missions of this tick
generateMissions(w, ids) ==
  LET first == {GenerateOne(w, ids[1])}
      second == {IF w1.error THEN w1 ELSE GenerateOne(w1, ids[2]) : w1 \in first}
  IN  Catch(CHOOSE w2 \in second : TRUE)

\* cleanupCompletedMissions that does not look at the status
cleanupCompletedMissions_anyStatus(w, olderThanMs) ==
  LET cutoffTime == now - olderThanMs
      removed == {id \in DOMAIN w.missions : w.missions[id].createdAt < cutoffTime}
  IN  Return([w EXCEPT !.missions = [id \in DOMAIN w.missions \ removed |-> w.missions[id]]],
             Cardinality(removed))

cleanupCompletedMissions(w, olderThanMs) ==
  LET cutoffTime == now - olderThanMs
      removed == {id \in DOMAIN w.missions :
                    /\ w.missions[id].status \in {"completed", "cancelled"}
                    /\ w.missions[id].createdAt < cutoffTime}
  IN  Return([w EXCEPT !.missions = [id \in DOMAIN w.missions \ removed |-> w.missions[id]]],
             Cardinality(removed))

performCleanup(w) == Catch(cleanupCompletedMissions(w, CLEANUP_MAX_AGE))

\* ------------------------------------------------------------------ state
\* no RobotService and no MissionService has been constructed
NoServices ==
  /\ robotService = <<>>
  /\ missionService = <<>>
  /\ missionCounter = 1
  /\ missionCreationInterval = NoTime
  /\ missionProcessingInterval = NoTime
  /\ timeouts = {}

\* no caller holds an object of the registries
NoViews ==
  /\ returned = Null
  /\ seen = Null

\* the state after construction, the fleet initialized with count robots
Constructed(count) ==
  /\ NoServices
  /\ NoViews
  /\ calls = 0
  /\ robots = [r \in 1..count |-> NewRobot]
  /\ missions = [id \in {} |-> NewMission(id)]
  /\ now = 0
  /\ nextId = 1
  /\ isSimulationRunning = FALSE
  /\ missionGenerationTimer = NoTime
  /\ stateTransitionTimer = NoTime
  /\ cleanupTimer = NoTime
  /\ intervals = [generateMissions |-> 0, processStateTransitions |-> 0,
                  performCleanup |-> 0]
  /\ emitted = <<>>
  /\ lastCall = [op |-> "initializeFleet", robotId |-> Null, missionId |-> Null,
                 ret |-> "void", val |-> count, error |-> FALSE]

Init == Constructed(NumRobots)

\* the context a call starts in
Here == World(robots, missions)

RetOf(b) == IF b THEN "true" ELSE "false"

\* the state a call leaves behind, and the record of the call
Done(w, op, robotId, missionId, ret, val) ==
  /\ robots' = w.robots
  /\ missions' = w.missions
  /\ emitted' = w.emitted
  /\ lastCall' = [op |-> op, robotId |-> robotId, missionId |-> missionId,
                  ret |-> IF w.error THEN "throw" ELSE ret,
                  val |-> IF w.error THEN Null ELSE val, error |-> w.error]
  /\ UNCHANGED services
  /\ UNCHANGED views

Timers == <<isSimulationRunning, missionGenerationTimer, stateTransitionTimer,
            cleanupTimer, intervals>>

\* setInterval(callback, ...): one more live instance of the callback
setInterval(callback) == [intervals EXCEPT ![callback] = @ + 1]

\* if (timer) { clearInterval(timer) }: the instance the handle names ends
clearInterval(live, timer, callback) ==
  IF timer # NoTime THEN [live EXCEPT ![callback] = @ - 1] ELSE live

Due(timer) == timer # NoTime /\ timer <= now

\* ----------------------------------------------------------------- the clock
NoCall == [op |-> "none", robotId |-> Null, missionId |-> Null,
           ret |-> "void", val |-> Null, error |-> FALSE]

Passes ==
  /\ now' = now + TimeStep
  /\ emitted' = <<>>
  /\ lastCall' = NoCall
  /\ UNCHANGED <<robots, missions, nextId, Timers>>
  /\ UNCHANGED services
  /\ UNCHANGED views

\* Time passes while the engine runs.  A callback whose interval has elapsed
\* runs before time moves on.
Tick ==
  /\ isSimulationRunning
  /\ now < MaxTime
  /\ ~Due(missionGenerationTimer) /\ ~Due(stateTransitionTimer) /\ ~Due(cleanupTimer)
  /\ Passes

\* Time passes while the engine has not been started.
Wait ==
  /\ ~isSimulationRunning
  /\ now < MaxWait
  /\ Passes

\* ------------------------------------------------- SimulationEngine actions
\* start() without the check for a running engine
Start_again ==
  /\ isSimulationRunning' = TRUE
  /\ missionGenerationTimer' = now + MISSION_GENERATION_INTERVAL
  /\ stateTransitionTimer' = now + STATE_TRANSITION_INTERVAL
  /\ cleanupTimer' = now + CLEANUP_INTERVAL
  /\ intervals' = [c \in DOMAIN intervals |-> setInterval(c)[c]]
  /\ Done(Emit(Here, "simulationStarted", Null, Null, Null),
          "start", Null, Null, "void", Null)
  /\ UNCHANGED <<now, nextId>>

Start ==
  IF isSimulationRunning
  THEN /\ Done(Throw(Here), "start", Null, Null, "void", Null)
       /\ UNCHANGED <<now, nextId, Timers>>
  ELSE /\ isSimulationRunning' = TRUE
       /\ missionGenerationTimer' = now + MISSION_GENERATION_INTERVAL
       /\ stateTransitionTimer' = now + STATE_TRANSITION_INTERVAL
       /\ cleanupTimer' = now + CLEANUP_INTERVAL
       /\ intervals' = [c \in DOMAIN intervals |-> setInterval(c)[c]]
       /\ Done(Emit(Here, "simulationStarted", Null, Null, Null),
               "start", Null, Null, "void", Null)
       /\ UNCHANGED <<now, nextId>>

\* stop() that leaves the state transition interval armed
Stop_keepsSweeping ==
  IF ~isSimulationRunning
  THEN /\ Done(Here, "stop", Null, Null, "void", Null)
       /\ UNCHANGED <<now, nextId, Timers>>
  ELSE /\ isSimulationRunning' = FALSE
       /\ missionGenerationTimer' = NoTime
       /\ cleanupTimer' = NoTime
       /\ intervals' =
            clearInterval(
              clearInterval(intervals, missionGenerationTimer, "generateMissions"),
              cleanupTimer, "performCleanup")
       /\ Done(Emit(Here, "simulationStopped", Null, Null, Null),
               "stop", Null, Null, "void", Null)
       /\ UNCHANGED <<now, nextId, stateTransitionTimer>>

Stop ==
  IF ~isSimulationRunning
  THEN /\ Done(Here, "stop", Null, Null, "void", Null)
       /\ UNCHANGED <<now, nextId, Timers>>
  ELSE /\ isSimulationRunning' = FALSE
       /\ missionGenerationTimer' = NoTime
       /\ stateTransitionTimer' = NoTime
       /\ cleanupTimer' = NoTime
       /\ intervals' =
            clearInterval(
              clearInterval(
                clearInterval(intervals, missionGenerationTimer, "generateMissions"),
                stateTransitionTimer, "processStateTransitions"),
              cleanupTimer, "performCleanup")
       /\ Done(Emit(Here, "simulationStopped", Null, Null, Null),
               "stop", Null, Null, "void", Null)
       /\ UNCHANGED <<now, nextId>>

\* the uuid generator: the ids it may produce for the next missions; ids are
\* taken to be distinct from every id produced before
FreshIds == <<nextId, nextId + 1>>

\* the mission generation interval fires
GenerationCallback ==
  /\ Due(missionGenerationTimer)
  /\ \E w \in {generateMissions(Here, FreshIds)} :
       Done(w, "generateMissions", Null, Null, RetOf(w.ret), Null)
  /\ nextId' = nextId + MISSIONS_PER_TICK
  /\ missionGenerationTimer' = now + MISSION_GENERATION_INTERVAL
  /\ UNCHANGED <<now, isSimulationRunning, stateTransitionTimer, cleanupTimer,
                 intervals>>

\* the mission generation interval fires, in a run that ends after MaxMissions
\* missions
GenerationTick ==
  /\ nextId + MISSIONS_PER_TICK - 1 <= MaxMissions
  /\ GenerationCallback

\* the state transition interval fires
SweepTick ==
  /\ Due(stateTransitionTimer)
  /\ \E w \in processStateTransitions(Here) :
       Done(w, "processStateTransitions", Null, Null, RetOf(w.ret), Null)
  /\ stateTransitionTimer' = now + STATE_TRANSITION_INTERVAL
  /\ UNCHANGED <<now, nextId, isSimulationRunning, missionGenerationTimer, cleanupTimer,
                 intervals>>

\* the cleanup interval fires
CleanupTick ==
  /\ Due(cleanupTimer)
  /\ \E w \in {performCleanup(Here)} :
       Done(w, "performCleanup", Null, Null, RetOf(w.ret), Null)
  /\ cleanupTimer' = now + CLEANUP_INTERVAL
  /\ UNCHANGED <<now, nextId, isSimulationRunning, missionGenerationTimer,
                 stateTransitionTimer, intervals>>

\* ----------------------------------------------------- calls from outside
\* FleetManager.cancelRobotMission(robotId), as the API route calls it
CancelRobotMission(robotId) ==
  /\ LET w == FleetManager_cancelRobotMission(Here, robotId)
     IN  Done(w, "cancelRobotMission", robotId, Null, RetOf(w.ret), Null)
  /\ UNCHANGED <<now, nextId, Timers>>

\* a call from outside while the engine runs
Outside == calls < MaxCalls /\ calls' = calls + 1

\* a callback of the engine
Inside == UNCHANGED calls

Boot == Inside /\ Start

Clock == Inside /\ Tick

Generation == Inside /\ GenerationTick

Sweep == Inside /\ SweepTick

Cancel == Outside /\ isSimulationRunning /\ \E robotId \in AnyRobotId : CancelRobotMission(robotId)

\* One run of the engine from its start, with cancellations from outside.  MaxTime is
\* less than CLEANUP_INTERVAL: the cleanup callback does not come due.
Next ==
  \/ Boot
  \/ Clock
  \/ Generation
  \/ Sweep
  \/ Cancel

Spec == Init /\ [][Next]_vars

\* ------------------------------------------------- a run left to itself
CycleClock ==
  /\ Inside
  /\ isSimulationRunning
  /\ now < MaxCycleTime
  /\ ~Due(missionGenerationTimer) /\ ~Due(stateTransitionTimer) /\ ~Due(cleanupTimer)
  /\ Passes

CycleGeneration == Inside /\ GenerationCallback

Cleaning == Inside /\ CleanupTick

\* One run of the engine from its start with no call from outside, every
\* callback firing when its interval has elapsed.
NextCycle ==
  \/ Boot
  \/ CycleClock
  \/ CycleGeneration
  \/ Sweep
  \/ Cleaning

InitCycle == Constructed(MaxCycleRobots)

SpecCycle == InitCycle /\ [][NextCycle]_vars

\* The event loop runs a callback whose interval has elapsed, and time does
\* not stop: no step of the run stays enabled for ever without being taken.
SpecCycleFair ==
  /\ SpecCycle
  /\ WF_vars(Boot)
  /\ WF_vars(CycleClock)
  /\ WF_vars(CycleGeneration)
  /\ WF_vars(Sweep)
  /\ WF_vars(Cleaning)

\* ------------------------- all three callbacks, with cancellations
WholeClock ==
  /\ Inside
  /\ isSimulationRunning
  /\ now < MaxWholeTime
  /\ ~Due(missionGenerationTimer) /\ ~Due(stateTransitionTimer) /\ ~Due(cleanupTimer)
  /\ Passes

\* One run of the engine from its start, every callback firing when its
\* interval has elapsed, with cancellations from outside at any moment.
NextWhole ==
  \/ Boot
  \/ WholeClock
  \/ CycleGeneration
  \/ Sweep
  \/ Cleaning
  \/ Cancel

SpecWhole == InitCycle /\ [][NextWhole]_vars

\* ------------------------------------------------------ start() and stop()
\* a start() or stop() call from outside, at any time
Lifecycle == calls < MaxLifecycleCalls /\ calls' = calls + 1

StartCall == Lifecycle /\ Start

StopCall == Lifecycle /\ Stop

\* Time passes while the engine is stopped.  A callback that is still armed
\* and whose interval has elapsed runs before time moves on.
Pause ==
  /\ ~isSimulationRunning
  /\ now < MaxTime
  /\ ~Due(missionGenerationTimer) /\ ~Due(stateTransitionTimer) /\ ~Due(cleanupTimer)
  /\ Passes
  /\ UNCHANGED calls

\* Any sequence of start() and stop() calls, time passing and the armed
\* callbacks firing in between.  MaxTime is less than CLEANUP_INTERVAL: the
\* cleanup callback does not come due.
NextLifecycle ==
  \/ StartCall
  \/ StopCall
  \/ Clock
  \/ Pause
  \/ Generation
  \/ Sweep

SpecLifecycle == Init /\ [][NextLifecycle]_vars

\* ------------------------------------------- an engine stopped for an hour
\* Time passes while the engine runs, before it is stopped and, for one
\* cleanup interval, after it has been started again.
SleepClock ==
  /\ Inside
  /\ isSimulationRunning
  /\ \/ now < MaxAwakeTime
     \/ /\ now >= CLEANUP_MAX_AGE
        /\ now < CLEANUP_MAX_AGE + MaxAwakeTime + CLEANUP_INTERVAL
  /\ ~Due(missionGenerationTimer) /\ ~Due(stateTransitionTimer) /\ ~Due(cleanupTimer)
  /\ Passes

\* The engine stays stopped for an hour: stop() has cleared the three
\* intervals, so no callback runs in between.
Sleep ==
  /\ Inside
  /\ ~isSimulationRunning
  /\ missionGenerationTimer = NoTime /\ stateTransitionTimer = NoTime
  /\ cleanupTimer = NoTime
  /\ now > 0
  /\ now < CLEANUP_MAX_AGE
  /\ now' = now + CLEANUP_MAX_AGE
  /\ emitted' = <<>>
  /\ lastCall' = NoCall
  /\ UNCHANGED <<robots, missions, nextId, Timers>>
  /\ UNCHANGED services
  /\ UNCHANGED views

\* start() on a stopped engine
SleepStart == Inside /\ ~isSimulationRunning /\ Start

\* stop() on a running engine, before the hour
SleepStop == Inside /\ isSimulationRunning /\ now < CLEANUP_MAX_AGE /\ Stop

\* A run of the engine that is stopped, left for an hour and started again.
NextSleep ==
  \/ SleepStart
  \/ SleepStop
  \/ SleepClock
  \/ Sleep
  \/ CycleGeneration
  \/ Sweep
  \/ Cleaning

SpecSleep == InitCycle /\ [][NextSleep]_vars

\* ------------------------------------------- calls on the objects themselves
\* a call while the engine has not been started
Api == ~isSimulationRunning /\ calls < MaxApiCalls /\ calls' = calls + 1

RobotAssignMission(r, missionId) ==
  /\ LET w == Robot_assignMission(Here, r, missionId)
     IN  Done(w, "Robot.assignMission", r, missionId, RetOf(w.ret), Null)
  /\ Api
  /\ UNCHANGED <<now, nextId, Timers>>

RobotStartMission(r) ==
  /\ Done(Robot_startMission(Here, r), "Robot.startMission", r, Null, "void", Null)
  /\ Api
  /\ UNCHANGED <<now, nextId, Timers>>

RobotStartDelivering(r) ==
  /\ Done(Robot_startDelivering(Here, r), "Robot.startDelivering", r, Null, "void", Null)
  /\ Api
  /\ UNCHANGED <<now, nextId, Timers>>

RobotCompleteMission(r) ==
  /\ Done(Robot_completeMission(Here, r), "Robot.completeMission", r, Null, "void", Null)
  /\ Api
  /\ UNCHANGED <<now, nextId, Timers>>

RobotReturnToIdle(r) ==
  /\ Done(Robot_returnToIdle(Here, r), "Robot.returnToIdle", r, Null, "void", Null)
  /\ Api
  /\ UNCHANGED <<now, nextId, Timers>>

RobotCancelCurrentMission(r) ==
  /\ Done(Robot_cancelCurrentMission(Here, r), "Robot.cancelCurrentMission", r, Null,
          "void", Null)
  /\ Api
  /\ UNCHANGED <<now, nextId, Timers>>

AssignMissionToAvailableRobot(missionId) ==
  /\ LET w == FleetManager_assignMissionToAvailableRobot(Here, missionId)
     IN  Done(w, "assignMissionToAvailableRobot", w.ret, missionId,
              IF w.ret = Null THEN "null" ELSE "robot", w.ret)
  /\ Api
  /\ UNCHANGED <<now, nextId, Timers>>

ApiCancelRobotMission(robotId) ==
  /\ CancelRobotMission(robotId)
  /\ Api

CreateMission ==
  /\ nextId <= MaxApiMissions
  /\ LET w == MissionManager_createMission(Here, nextId)
     IN  Done(w, "createMission", Null, nextId, "id", w.ret)
  /\ nextId' = nextId + 1
  /\ Api
  /\ UNCHANGED <<now, Timers>>

AssignMission(missionId, robotId) ==
  /\ Done(MissionManager_assignMission(Here, missionId, robotId),
          "MissionManager.assignMission", robotId, missionId, "void", Null)
  /\ Api
  /\ UNCHANGED <<now, nextId, Timers>>

StartMission(missionId) ==
  /\ Done(MissionManager_startMission(Here, missionId),
          "MissionManager.startMission", Null, missionId, "void", Null)
  /\ Api
  /\ UNCHANGED <<now, nextId, Timers>>

CompleteMission(missionId) ==
  /\ Done(MissionManager_completeMission(Here, missionId),
          "MissionManager.completeMission", Null, missionId, "void", Null)
  /\ Api
  /\ UNCHANGED <<now, nextId, Timers>>

CancelMission(missionId) ==
  /\ Done(MissionManager_cancelMission(Here, missionId),
          "MissionManager.cancelMission", Null, missionId, "void", Null)
  /\ Api
  /\ UNCHANGED <<now, nextId, Timers>>

\* the ages cleanupCompletedMissions is called with
CleanupAges == {0, TimeStep}

CleanupCompletedMissions(olderThanMs) ==
  /\ LET w == cleanupCompletedMissions(Here, olderThanMs)
     IN  Done(w, "cleanupCompletedMissions", Null, Null, "count", w.ret)
  /\ Api
  /\ UNCHANGED <<now, nextId, Timers>>

RobotCall ==
  \E r \in RobotIds :
    \/ \E missionId \in AnyMissionId : RobotAssignMission(r, missionId)
    \/ RobotStartMission(r)
    \/ RobotStartDelivering(r)
    \/ RobotCompleteMission(r)
    \/ RobotReturnToIdle(r)
    \/ RobotCancelCurrentMission(r)

FleetCall ==
  \/ \E missionId \in AnyMissionId : AssignMissionToAvailableRobot(missionId)
  \/ \E robotId \in AnyRobotId : ApiCancelRobotMission(robotId)

RegistryCall ==
  \/ CreateMission
  \/ \E missionId \in AnyMissionId :
       \/ \E robotId \in RobotIds : AssignMission(missionId, robotId)
       \/ StartMission(missionId)
       \/ CompleteMission(missionId)
       \/ CancelMission(missionId)
  \/ \E olderThanMs \in CleanupAges : CleanupCompletedMissions(olderThanMs)

Idle == Wait /\ UNCHANGED calls

\* Any sequence of calls of the public methods of the robots and of the
\* FleetManager, on missions the MissionManager has created and on missions
\* it has not; the engine is constructed and not started.
NextRobot ==
  \/ Idle
  \/ RobotCall
  \/ FleetCall
  \/ CreateMission

SpecRobot == Init /\ [][NextRobot]_vars

\* Any sequence of calls of the public methods of the MissionManager.
NextRegistry ==
  \/ Idle
  \/ RegistryCall

SpecRegistry == Init /\ [][NextRegistry]_vars

RobotCancel == \E r \in RobotIds : RobotCancelCurrentMission(r)

\* Any sequence of calls of the public methods of the FleetManager and of the
\* MissionManager together, and of cancellations on the robots themselves.
NextApi ==
  \/ Idle
  \/ RobotCancel
  \/ FleetCall
  \/ RegistryCall

SpecApi == Init /\ [][NextApi]_vars

\* createMission, for the runs that end in cleanups
CreateNextMission ==
  /\ nextId <= MaxCleanupMissions
  /\ LET w == MissionManager_createMission(Here, nextId)
     IN  Done(w, "createMission", Null, nextId, "id", w.ret)
  /\ nextId' = nextId + 1
  /\ Api
  /\ UNCHANGED <<now, Timers>>

\* a transition of a mission the registry holds or has held
Transition ==
  \E missionId \in 1..MaxCleanupMissions :
    \/ \E robotId \in RobotIds : AssignMission(missionId, robotId)
    \/ StartMission(missionId)
    \/ CompleteMission(missionId)
    \/ CancelMission(missionId)

Cleanup == \E olderThanMs \in CleanupAges : CleanupCompletedMissions(olderThanMs)

\* Missions created at different times, taken through their transitions and
\* cleaned up with different retention windows.
NextCleanup ==
  \/ Idle
  \/ CreateNextMission
  \/ Transition
  \/ Cleanup

SpecCleanup == Init /\ [][NextCleanup]_vars

\* ------------------------------------ cancellations of both kinds in a run
\* MissionManager.cancelMission(missionId) called from outside while the
\* engine runs
RegistryCancelMission(missionId) ==
  /\ Done(MissionManager_cancelMission(Here, missionId),
          "MissionManager.cancelMission", Null, missionId, "void", Null)
  /\ UNCHANGED <<now, nextId, Timers>>

RegistryCancel ==
  /\ Outside
  /\ isSimulationRunning
  /\ \E missionId \in 1..MaxMissions : RegistryCancelMission(missionId)

RaceClock ==
  /\ Inside
  /\ isSimulationRunning
  /\ now < MaxRaceTime
  /\ ~Due(missionGenerationTimer) /\ ~Due(stateTransitionTimer) /\ ~Due(cleanupTimer)
  /\ Passes

\* One run of the engine from its start, with cancellations from outside made
\* through the fleet (cancelRobotMission) and through the registry
\* (cancelMission).
NextRace ==
  \/ Boot
  \/ RaceClock
  \/ Generation
  \/ Sweep
  \/ Cancel
  \/ RegistryCancel

SpecRace == Init /\ [][NextRace]_vars

\* --------------------------------------------------- the ids of missions
\* uuidv4().slice(0, 8): a random value of 32 bits, drawn anew at each call
uuidv4_slice == 1..MaxUuids

\* MissionManager.createMission(), the id being what the generator draws
CreateDrawnMission ==
  /\ \E id \in uuidv4_slice :
       \E w \in {MissionManager_createMission(Here, id)} :
         Done(w, "createMission", Null, id, "id", w.ret)
  /\ nextId' = nextId + 1
  /\ Api
  /\ UNCHANGED <<now, Timers>>

\* Missions created with drawn ids, taken through their transitions and
\* cleaned up.
NextIds ==
  \/ Idle
  \/ CreateDrawnMission
  \/ Transition
  \/ Cleanup

SpecIds == Init /\ [][NextIds]_vars

\* ------------------------------------ a burst of creations and assignments
\* Time passes between two callbacks of the burst.
BurstWait ==
  /\ ~isSimulationRunning
  /\ now < MaxBurstTime
  /\ Passes
  /\ UNCHANGED calls

\* missionManager.createMission(), the first half of a callback of the burst
BurstCreate ==
  /\ ~isSimulationRunning
  /\ lastCall.op # "createMission"
  /\ nextId <= MaxBurstMissions
  /\ \E w \in {MissionManager_createMission(Here, nextId)} :
       Done(w, "createMission", Null, nextId, "id", w.ret)
  /\ nextId' = nextId + 1
  /\ calls' = calls + 1
  /\ UNCHANGED <<now, Timers>>

\* fleetManager.assignMissionToAvailableRobot(mission), the second half
BurstAssign ==
  /\ ~isSimulationRunning
  /\ lastCall.op = "createMission"
  /\ \E w \in {FleetManager_assignMissionToAvailableRobot(Here, lastCall.missionId)} :
       Done(w, "assignMissionToAvailableRobot", w.ret, lastCall.missionId,
            IF w.ret = Null THEN "null" ELSE "robot", w.ret)
  /\ calls' = calls + 1
  /\ UNCHANGED <<now, nextId, Timers>>

\* Missions created one after the other, each handed to the FleetManager
\* as soon as it is created.
NextBurst ==
  \/ BurstWait
  \/ BurstCreate
  \/ BurstAssign

SpecBurst == Init /\ [][NextBurst]_vars

\* ----------------------------- assignments, cancellations and queries
\* missionManager.createMission()
IntegrityCreate ==
  /\ nextId <= MaxIntegrityMissions
  /\ \E w \in {MissionManager_createMission(Here, nextId)} :
       Done(w, "createMission", Null, nextId, "id", w.ret)
  /\ nextId' = nextId + 1
  /\ Api
  /\ UNCHANGED <<now, Timers>>

\* robot = fleetManager.assignMissionToAvailableRobot(mission);
\* if (robot) { missionManager.assignMission(mission.id, robot.getId()) }
AssignOnBothSides(w, missionId) ==
  LET w1 == FleetManager_assignMissionToAvailableRobot(w, missionId)
  IN  IF w1.ret = Null THEN w1
      ELSE Return(MissionManager_assignMission(w1, missionId, w1.ret), w1.ret)

\* the assignment, on a mission the registry holds
IntegrityAssign ==
  /\ \E missionId \in DOMAIN missions :
       \E w \in {AssignOnBothSides(Here, missionId)} :
         Done(w, "assignOnBothSides", w.ret, missionId,
              IF w.ret = Null THEN "null" ELSE "robot", w.ret)
  /\ Api
  /\ UNCHANGED <<now, nextId, Timers>>

\* fleetManager.getFleetStatistics(); fleetManager.getActiveRobots()
StatisticsQuery ==
  /\ lastCall.op # "getFleetStatistics"
  /\ Done(Here, "getFleetStatistics", Null, Null, "stats",
          getFleetStatistics(Here).total - getFleetStatistics(Here).idle)
  /\ Api
  /\ UNCHANGED <<now, nextId, Timers>>

IntegrityCancel ==
  \/ RobotCancel
  \/ \E robotId \in AnyRobotId : ApiCancelRobotMission(robotId)

\* Creations, assignments on both sides, cancellations of robots and
\* queries, in any order; the engine is constructed and not started.
NextIntegrity ==
  \/ Idle
  \/ IntegrityCreate
  \/ IntegrityAssign
  \/ IntegrityCancel
  \/ StatisticsQuery

SpecIntegrity == Init /\ [][NextIntegrity]_vars

\* ------------------------------------------- objects returned to a caller
\* createMission() and getMission() return the object the Map holds, not a
\* copy: what the caller reads from it is what the registry has stored.
Held == missions[returned]

\* the record of a call that hands an object to the caller
Handed(op, missionId) ==
  /\ returned' = missionId
  /\ seen' = missions'[missionId]
  /\ emitted' = <<>>
  /\ lastCall' = [op |-> op, robotId |-> Null, missionId |-> missionId,
                  ret |-> "mission", val |-> missionId, error |-> FALSE]
  /\ UNCHANGED <<robots, now, Timers>>
  /\ UNCHANGED services

\* const mission = missionManager.createMission()
ViewCreate ==
  /\ nextId <= MaxCleanupMissions
  /\ missions' = MissionManager_createMission(Here, nextId).missions
  /\ nextId' = nextId + 1
  /\ Handed("createMission", nextId)
  /\ Api

\* const mission = missionManager.getMission(missionId)
ViewGet ==
  /\ UNCHANGED <<missions, nextId>>
  /\ \E missionId \in DOMAIN missions :
       /\ missionId # returned
       /\ Handed("getMission", missionId)
  /\ Api

\* mission.status = status, on the object the caller holds
ViewWrite ==
  /\ returned # Null
  /\ \E status \in MissionStatus \ {Held.status} :
       missions' = [missions EXCEPT ![returned].status = status]
  /\ emitted' = <<>>
  /\ lastCall' = [op |-> "mission.status =", robotId |-> Null,
                  missionId |-> returned, ret |-> "void", val |-> Null,
                  error |-> FALSE]
  /\ UNCHANGED <<robots, now, nextId, Timers>>
  /\ UNCHANGED services
  /\ UNCHANGED views
  /\ Api

\* A caller that keeps the Mission object a call returned, reads it and
\* writes to it, while the registry takes its missions through their
\* transitions.
NextViews ==
  \/ Idle
  \/ ViewCreate
  \/ ViewGet
  \/ ViewWrite
  \/ Transition

SpecViews == Init /\ [][NextViews]_vars

\* ------------------------------------------- RobotService, MissionService
\* The part of the services' state a call reads and writes while it runs;
\* w.ret is the value returned by the last completed callee.  Robot ids
\* "ROBOT-001", ... and mission ids "MISSION-000001", ... are the integers
\* 1, 2, ...; a timeout is the callback, the id it closes over, and the
\* times it was set at and is due at.
ServiceWorld(r, m, c, t) ==
  [robots |-> r, missions |-> m, missionCounter |-> c, timeouts |-> t, ret |-> Null]

ServiceHere == ServiceWorld(robotService, missionService, missionCounter, timeouts)

setTimeout(w, callback, id, delay) ==
  [w EXCEPT !.timeouts = @ \cup {[callback |-> callback, id |-> id,
                                   setAt |-> now, due |-> now + delay]}]

RobotService_initializeRobots(count) ==
  [r \in 1..count |-> [status |-> "idle", currentMissionId |-> Null]]

RobotService_getAvailableRobots(w) ==
  {r \in DOMAIN w.robots : w.robots[r].status = "idle"}

RobotService_updateRobotStatus(w, robotId, newStatus, missionId) ==
  IF robotId \notin DOMAIN w.robots THEN Return(w, FALSE)
  ELSE Return([w EXCEPT !.robots[robotId] =
                 [status |-> newStatus,
                  currentMissionId |->
                    IF missionId # Null THEN missionId
                    ELSE IF newStatus = "idle" THEN Null
                    ELSE @.currentMissionId]],
              TRUE)

RobotService_assignMission(w, robotId, missionId) ==
  RobotService_updateRobotStatus(w, robotId, "assigned", missionId)

RobotService_startMission(w, robotId) ==
  IF robotId \notin DOMAIN w.robots \/ w.robots[robotId].status # "assigned"
  THEN Return(w, FALSE)
  ELSE RobotService_updateRobotStatus(w, robotId, "en_route", Null)

RobotService_startDelivering(w, robotId) ==
  IF robotId \notin DOMAIN w.robots \/ w.robots[robotId].status # "en_route"
  THEN Return(w, FALSE)
  ELSE RobotService_updateRobotStatus(w, robotId, "delivering", Null)

RobotService_completeMission(w, robotId) ==
  IF robotId \notin DOMAIN w.robots \/ w.robots[robotId].status # "delivering"
  THEN Return(w, FALSE)
  ELSE LET w1 == RobotService_updateRobotStatus(w, robotId, "completed", Null)
       IN  Return(setTimeout(w1, "returnToIdle", robotId, 5000), TRUE)

\* the callback completeMission sets a timeout for
ReturnToIdleCallback(w, robotId) ==
  RobotService_updateRobotStatus(w, robotId, "idle", Null)

RobotService_cancelMission(w, robotId) ==
  IF robotId \notin DOMAIN w.robots \/ w.robots[robotId].status = "idle"
  THEN Return(w, FALSE)
  ELSE RobotService_updateRobotStatus(w, robotId, "idle", Null)

MissionService_updateMissionStatus(w, missionId, newStatus, robotId) ==
  IF missionId \notin DOMAIN w.missions THEN Return(w, FALSE)
  ELSE Return([w EXCEPT !.missions[missionId] =
                 [status |-> newStatus,
                  assignedRobotId |->
                    IF robotId # Null THEN robotId ELSE @.assignedRobotId]],
              TRUE)

\* The closest available robot: where the robots and the mission's origin
\* are is drawn at random, so it can be any of the available robots.
tryAssignMission(w, missionId) ==
  IF missionId \notin DOMAIN w.missions \/ w.missions[missionId].status # "pending"
  THEN {w}
  ELSE IF RobotService_getAvailableRobots(w) = {} THEN {w}
  ELSE {LET w1 == RobotService_assignMission(w, closestRobot, missionId)
        IN  IF w1.ret = TRUE
            THEN MissionService_updateMissionStatus(w1, missionId, "assigned",
                                                    closestRobot)
            ELSE w1
        : closestRobot \in RobotService_getAvailableRobots(w)}

\* Math.random() * 30000, on the grid of the clock
StartDelays == {k * ServiceStep : k \in 0..((30000 \div ServiceStep) - 1)}

tryStartMission(w, missionId) ==
  IF \/ missionId \notin DOMAIN w.missions
     \/ w.missions[missionId].assignedRobotId = Null
     \/ w.missions[missionId].status # "assigned"
  THEN {w}
  ELSE {setTimeout(w, "startMission", missionId, delay) : delay \in StartDelays}

\* the callback tryStartMission sets a timeout for
StartMissionCallback(w, missionId) ==
  LET w1 == RobotService_startMission(w, w.missions[missionId].assignedRobotId)
  IN  IF w1.ret = TRUE
      THEN MissionService_updateMissionStatus(w1, missionId, "in_progress", Null)
      ELSE w1

\* Math.random() < 0.3 and Math.random() < 0.4 come out either way
tryProgressMission(w, missionId) ==
  IF \/ missionId \notin DOMAIN w.missions
     \/ w.missions[missionId].assignedRobotId = Null
     \/ w.missions[missionId].status # "in_progress"
  THEN {w}
  ELSE LET robot == w.missions[missionId].assignedRobotId IN
       IF robot \notin DOMAIN w.robots THEN {w}
       ELSE IF w.robots[robot].status = "en_route"
       THEN {w, RobotService_startDelivering(w, robot)}
       ELSE IF w.robots[robot].status = "delivering"
       THEN {w, MissionService_updateMissionStatus(
                  RobotService_completeMission(w, robot), missionId, "completed",
                  Null)}
       ELSE {w}

\* the body of the forEach of processMissions, for one mission
ProcessOne(w, missionId) ==
  CASE w.missions[missionId].status = "pending" -> tryAssignMission(w, missionId)
    [] w.missions[missionId].status = "assigned" -> tryStartMission(w, missionId)
    [] w.missions[missionId].status = "in_progress" ->
         tryProgressMission(w, missionId)
    [] OTHER -> {w}

\* the missions from missionId on, in the order of the Map
RECURSIVE ProcessFrom(_, _)
ProcessFrom(ws, missionId) ==
  IF ws = {} \/ \A w \in ws : missionId \notin DOMAIN w.missions THEN ws
  ELSE ProcessFrom(UNION {ProcessOne(w, missionId) : w \in ws}, missionId + 1)

processMissions(w) == ProcessFrom({w}, 1)

createRandomMission(w) ==
  LET id == w.missionCounter
      w1 == [w EXCEPT !.missions = Append(@, [status |-> "pending",
                                               assignedRobotId |-> Null]),
                      !.missionCounter = @ + 1]
  IN  tryAssignMission(w1, id)

MissionService_cancelMission(w, missionId) ==
  IF missionId \notin DOMAIN w.missions THEN Return(w, FALSE)
  ELSE IF w.missions[missionId].status \in {"completed", "cancelled"}
  THEN Return(w, FALSE)
  ELSE LET w1 == IF w.missions[missionId].assignedRobotId # Null
                 THEN RobotService_cancelMission(
                        w, w.missions[missionId].assignedRobotId)
                 ELSE w
       IN  Return(MissionService_updateMissionStatus(w1, missionId, "cancelled",
                                                     Null), TRUE)

\* ------------------------------------------------------ a run of the services
\* the state a call on the services leaves behind, and the record of the call
ServiceDone(w, op, robotId, missionId, ret) ==
  /\ robotService' = w.robots
  /\ missionService' = w.missions
  /\ missionCounter' = w.missionCounter
  /\ timeouts' = w.timeouts
  /\ emitted' = <<>>
  /\ lastCall' = [op |-> op, robotId |-> robotId, missionId |-> missionId,
                  ret |-> ret, val |-> Null, error |-> FALSE]
  /\ UNCHANGED <<robots, missions, nextId, Timers>>
  /\ UNCHANGED views

\* new RobotService(); new MissionService(robotService): the robots, the
\* two intervals and the two missions of startMissionGeneration
ServicesConstructed(count) ==
  /\ calls = 0
  /\ robots = <<>>
  /\ missions = <<>>
  /\ now = 0
  /\ nextId = 1
  /\ isSimulationRunning = FALSE
  /\ missionGenerationTimer = NoTime
  /\ stateTransitionTimer = NoTime
  /\ cleanupTimer = NoTime
  /\ intervals = [generateMissions |-> 0, processStateTransitions |-> 0,
                  performCleanup |-> 0]
  /\ emitted = <<>>
  /\ lastCall = [op |-> "new MissionService", robotId |-> Null, missionId |-> Null,
                 ret |-> "void", val |-> count, error |-> FALSE]
  /\ NoViews
  /\ missionCreationInterval = 60000
  /\ missionProcessingInterval = 10000
  /\ \E w1 \in createRandomMission(
                 ServiceWorld(RobotService_initializeRobots(count), <<>>, 1, {})) :
       \E w2 \in createRandomMission(w1) :
         /\ robotService = w2.robots
         /\ missionService = w2.missions
         /\ missionCounter = w2.missionCounter
         /\ timeouts = w2.timeouts

InitServices == ServicesConstructed(ServiceRobots)

DueTimeout(t) == t.due <= now

\* Time passes.  A callback that is due runs before time moves on.
ServiceClock ==
  /\ now < MaxServiceTime
  /\ ~Due(missionCreationInterval) /\ ~Due(missionProcessingInterval)
  /\ \A t \in timeouts : ~DueTimeout(t)
  /\ now' = now + ServiceStep
  /\ emitted' = <<>>
  /\ lastCall' = NoCall
  /\ UNCHANGED <<calls, robots, missions, nextId, Timers>>
  /\ UNCHANGED services
  /\ UNCHANGED views

\* the callback of missionCreationInterval
CreationTick ==
  /\ Due(missionCreationInterval)
  /\ \E w1 \in createRandomMission(ServiceHere) :
       \E w2 \in createRandomMission(w1) :
         ServiceDone(w2, "createRandomMission", Null, Null, "void")
  /\ missionCreationInterval' = missionCreationInterval + 60000
  /\ UNCHANGED <<calls, now, missionProcessingInterval>>

\* the callback of missionProcessingInterval
ProcessingTick ==
  /\ Due(missionProcessingInterval)
  /\ \E w \in processMissions(ServiceHere) :
       ServiceDone(w, "processMissions", Null, Null, "void")
  /\ missionProcessingInterval' = missionProcessingInterval + 10000
  /\ UNCHANGED <<calls, now, missionCreationInterval>>

\* a timeout set by tryStartMission runs its callback
StartTimeout ==
  /\ \E t \in timeouts :
       /\ t.callback = "startMission"
       /\ DueTimeout(t)
       /\ \E w \in {StartMissionCallback(
                      [ServiceHere EXCEPT !.timeouts = @ \ {t}], t.id)} :
            ServiceDone(w, "startMissionCallback",
                        missionService[t.id].assignedRobotId, t.id, "void")
  /\ UNCHANGED <<calls, now, missionCreationInterval, missionProcessingInterval>>

\* a timeout set by completeMission runs its callback
IdleTimeout ==
  /\ \E t \in timeouts :
       /\ t.callback = "returnToIdle"
       /\ DueTimeout(t)
       /\ \E w \in {ReturnToIdleCallback(
                      [ServiceHere EXCEPT !.timeouts = @ \ {t}], t.id)} :
            ServiceDone(w, "returnToIdleCallback", t.id, Null, "void")
  /\ UNCHANGED <<calls, now, missionCreationInterval, missionProcessingInterval>>

ServiceCall == calls < MaxServiceCalls /\ calls' = calls + 1

\* missionService.cancelMission(missionId), for the missions there are and
\* for one id there is not
ServiceCancelMission ==
  /\ \E missionId \in 1..missionCounter :
       \E w \in {MissionService_cancelMission(ServiceHere, missionId)} :
         ServiceDone(w, "MissionService.cancelMission", Null, missionId, RetOf(w.ret))
  /\ ServiceCall
  /\ UNCHANGED <<now, missionCreationInterval, missionProcessingInterval>>

\* robotService.cancelMission(robotId)
ServiceCancelRobot ==
  /\ \E robotId \in 1..(ServiceRobots + 1) :
       \E w \in {RobotService_cancelMission(ServiceHere, robotId)} :
         ServiceDone(w, "RobotService.cancelMission", robotId, Null, RetOf(w.ret))
  /\ ServiceCall
  /\ UNCHANGED <<now, missionCreationInterval, missionProcessingInterval>>

\* The two services left to their intervals and timeouts, with cancellations
\* from outside at any moment.
NextServices ==
  \/ ServiceClock
  \/ CreationTick
  \/ ProcessingTick
  \/ StartTimeout
  \/ IdleTimeout
  \/ ServiceCancelMission
  \/ ServiceCancelRobot

SpecServices == InitServices /\ [][NextServices]_vars

\* ================================================================ properties
NonIdle(rs) == {r \in DOMAIN rs : rs[r].status # "idle"}

\* the entries of a notification log that carry the given event
Events(log, event) == {i \in DOMAIN log : log[i].event = event}

\* ------------------------------------------------------------------------ C1
\* C1: no double-booking.  In every step of a run of generation ticks, sweeps
\* and cancellations, every robot an assignment returns was IDLE when the
\* tick began, no two assignments of the tick return the same robot, and
\* afterwards no two non-IDLE robots hold the same mission id.
C1_NoDoubleBooking ==
  [][/\ \A i \in Events(emitted', "missionAssigned") :
          /\ robots[emitted'[i].robotId].status = "idle"
          /\ robots'[emitted'[i].robotId].currentMissionId = emitted'[i].missionId
          /\ \A j \in Events(emitted', "missionAssigned") :
               i # j => emitted'[i].robotId # emitted'[j].robotId
     /\ \A r1, r2 \in NonIdle(robots') :
          r1 # r2 => robots'[r1].currentMissionId # robots'[r2].currentMissionId
    ]_vars

\* a generation tick assigns a robot freed by a cancellation while the other
\* robot is still on its mission
C1_Witness ==
  /\ lastCall.op = "generateMissions"
  /\ calls >= 1
  /\ \E i \in Events(emitted, "missionAssigned") :
       emitted[i].missionId > MISSIONS_PER_TICK
  /\ NonIdle(robots) = RobotIds

\* ------------------------------------------------------------------------ C2
\* C2: in every state reached by any sequence of robot calls, successful or
\* failing, a robot is IDLE if and only if it holds no mission id.
C2_IdleIffNoMission ==
  \A r \in RobotIds : robots[r].status = "idle" <=> robots[r].currentMissionId = Null

\* a cancellation has just returned a robot to IDLE
C2_Witness ==
  /\ lastCall.op = "Robot.cancelCurrentMission"
  /\ Events(emitted, "missionCancelled") # {}
  /\ robots[lastCall.robotId].status = "idle"

\* ------------------------------------------------------------------------ C3
\* C3 as stated: a mission is ASSIGNED or IN_PROGRESS if and only if it
\* records a robot id.
C3_ActiveIffRobot ==
  \A id \in DOMAIN missions :
    missions[id].status \in {"assigned", "in_progress"} <=> missions[id].robotId # Null

\* C3 amended: a mission that is ASSIGNED or IN_PROGRESS records a robot id;
\* a mission records a robot id if and only if it has been assigned
\* (assignedAt is set), and keeps it when it becomes COMPLETED or CANCELLED;
\* a mission without a robot id is CREATED or was cancelled unassigned.
C3_RobotIffAssignedOnce ==
  \A id \in DOMAIN missions :
    /\ missions[id].status \in {"assigned", "in_progress"} => missions[id].robotId # Null
    /\ missions[id].robotId # Null <=> missions[id].assignedAt # NoTime
    /\ missions[id].status = "completed" => missions[id].robotId # Null
    /\ missions[id].robotId = Null => missions[id].status \in {"created", "cancelled"}

\* a completed mission that still records its robot
C3_Witness ==
  \E id \in DOMAIN missions :
    missions[id].status = "completed" /\ missions[id].robotId # Null

\* ------------------------------------------------------------------------ C4
\* C4: in every state reached by calls on the robots, getFleetStatistics()
\* has total equal to the fleet size and its five per-status counts add up to
\* total.
C4_StatisticsAddUp ==
  LET stats == getFleetStatistics(Here) IN
  /\ stats.total = NumRobots
  /\ stats.idle + stats.assigned + stats.en_route + stats.delivering
       + stats.completed = stats.total

\* one robot has reached COMPLETED while another is IDLE
C4_Witness ==
  /\ getFleetStatistics(Here).completed >= 1
  /\ getFleetStatistics(Here).idle >= 1

\* ------------------------------------------------------------------------ C5
\* C5: with the engine wired, cancelRobotMission on a robot that is ASSIGNED,
\* EN_ROUTE or DELIVERING and whose mission is registered raises nothing,
\* leaves the robot IDLE without a mission id and the mission CANCELLED with
\* cancelledAt set.
C5_CancelMidFlight ==
  [][\A r \in RobotIds :
       LET id == robots[r].currentMissionId IN
       (/\ lastCall'.op = "cancelRobotMission"
        /\ lastCall'.robotId = r
        /\ robots[r].status \in {"assigned", "en_route", "delivering"}
        /\ id \in DOMAIN missions)
       => /\ ~lastCall'.error
          /\ lastCall'.ret = "true"
          /\ robots'[r].status = "idle"
          /\ robots'[r].currentMissionId = Null
          /\ id \in DOMAIN missions'
          /\ missions'[id].status = "cancelled"
          /\ missions'[id].cancelledAt = now
    ]_vars

\* a cancellation has just cancelled a mission that had been started
C5_Witness ==
  /\ lastCall.op = "cancelRobotMission"
  /\ ~lastCall.error
  /\ \E i \in Events(emitted, "missionCancelled") :
       /\ emitted[i].missionId \in DOMAIN missions
       /\ missions[emitted[i].missionId].status = "cancelled"
       /\ missions[emitted[i].missionId].startedAt # NoTime
       /\ now - missions[emitted[i].missionId].startedAt
            >= STATE_DURATIONS.EN_ROUTE_TO_DELIVERING.min

\* ------------------------------------------------------------------------ C6
\* C6: cancelCurrentMission (called on the robot or through
\* cancelRobotMission) on an IDLE robot, and cancelMission on a COMPLETED or
\* CANCELLED mission, raise nothing, emit nothing and leave every field of
\* every robot and mission as it was.
C6_IdempotentCancel ==
  [][/\ \A r \in RobotIds :
          (/\ lastCall'.op \in {"Robot.cancelCurrentMission", "cancelRobotMission"}
           /\ lastCall'.robotId = r
           /\ robots[r].status = "idle")
          => /\ ~lastCall'.error
             /\ emitted' = <<>>
             /\ robots' = robots
             /\ missions' = missions
     /\ \A id \in DOMAIN missions :
          (/\ lastCall'.op = "MissionManager.cancelMission"
           /\ lastCall'.missionId = id
           /\ missions[id].status \in {"completed", "cancelled"})
          => /\ ~lastCall'.error
             /\ emitted' = <<>>
             /\ robots' = robots
             /\ missions' = missions
    ]_vars

\* cancelMission has been called on a mission cancelled at an earlier time
C6_Witness ==
  /\ lastCall.op = "MissionManager.cancelMission"
  /\ ~lastCall.error
  /\ lastCall.missionId \in DOMAIN missions
  /\ missions[lastCall.missionId].status = "cancelled"
  /\ missions[lastCall.missionId].cancelledAt < now

\* ------------------------------------------------------------------------ C7
MissionEdges ==
  {<<"created", "assigned">>, <<"assigned", "in_progress">>,
   <<"in_progress", "completed">>, <<"created", "cancelled">>,
   <<"assigned", "cancelled">>, <<"in_progress", "cancelled">>}

\* C7: a mission of the registry changes status only along created->assigned,
\* assigned->in_progress, in_progress->completed and created, assigned or
\* in_progress->cancelled; a COMPLETED or CANCELLED mission never changes
\* status again.
C7_MissionTransitions ==
  [][\A id \in DOMAIN missions \cap DOMAIN missions' :
          \/ missions'[id].status = missions[id].status
          \/ <<missions[id].status, missions'[id].status>> \in MissionEdges
    ]_vars

\* a start or complete call has just failed on a mission that is COMPLETED or
\* CANCELLED
C7_Witness ==
  /\ lastCall.op \in {"MissionManager.startMission", "MissionManager.completeMission",
                      "MissionManager.assignMission"}
  /\ lastCall.error
  /\ lastCall.missionId \in DOMAIN missions
  /\ missions[lastCall.missionId].status \in {"completed", "cancelled"}

\* ------------------------------------------------------------------------ C8
RobotEdges ==
  {<<"idle", "assigned">>, <<"assigned", "en_route">>, <<"en_route", "delivering">>,
   <<"delivering", "completed">>, <<"completed", "idle">>}
  \cup {<<s, "idle">> : s \in RobotStatus \ {"idle"}}

\* the statuses a robot goes through in a step: the one it had, the one of
\* each status-changed notification of the step, the one it has afterwards
StatusPath(r, before, log, after) ==
  <<before[r].status>>
  \o [i \in 1..Len(SelectSeq(log, LAMBDA e : e.event = "statusChanged" /\ e.robotId = r))
        |-> SelectSeq(log, LAMBDA e : e.event = "statusChanged" /\ e.robotId = r)[i].status]
  \o <<after[r].status>>

\* C8: every status change of a robot follows idle->assigned->en_route->
\* delivering->completed->idle or goes from a non-idle status to idle.
C8_RobotTransitions ==
  [][\A r \in RobotIds :
       LET path == StatusPath(r, robots, emitted', robots') IN
       \A i \in 1..(Len(path) - 1) :
         path[i] = path[i + 1] \/ <<path[i], path[i + 1]>> \in RobotEdges
    ]_vars

\* a robot has gone through the whole cycle: returnToIdle has just succeeded
C8_Witness ==
  /\ lastCall.op = "Robot.returnToIdle"
  /\ ~lastCall.error
  /\ robots[lastCall.robotId].status = "idle"

\* ------------------------------------------------------------------------ C9
\* the status a mission must have for the call to go through
Required(op) ==
  CASE op = "MissionManager.assignMission" -> "created"
    [] op = "MissionManager.startMission" -> "assigned"
    [] op = "MissionManager.completeMission" -> "in_progress"

RequiredStatus(op) ==
  CASE op = "Robot.startMission" -> "assigned"
    [] op = "Robot.startDelivering" -> "en_route"
    [] op = "Robot.completeMission" -> "delivering"
    [] op = "Robot.returnToIdle" -> "completed"

\* C10: assignMission on a robot that is not IDLE returns false; startMission,
\* startDelivering, completeMission and returnToIdle on a robot that is not in
\* the required status raise an Error; in each case no robot field changes
\* (status, mission id, lastUpdated) and nothing is emitted.
C10_FailedRobotCalls ==
  [][\A r \in RobotIds :
       /\ (/\ lastCall'.op = "Robot.assignMission"
           /\ lastCall'.robotId = r
           /\ robots[r].status # "idle")
          => /\ lastCall'.ret = "false"
             /\ robots' = robots
             /\ emitted' = <<>>
       /\ (/\ lastCall'.op \in {"Robot.startMission", "Robot.startDelivering",
                                "Robot.completeMission", "Robot.returnToIdle"}
           /\ lastCall'.robotId = r
           /\ robots[r].status # RequiredStatus(lastCall'.op))
          => /\ lastCall'.error
             /\ robots' = robots
             /\ emitted' = <<>>
    ]_vars

\* assignMission has just returned false on a robot whose last change is
\* older than the call
C10_Witness ==
  /\ lastCall.op = "Robot.assignMission"
  /\ lastCall.ret = "false"
  /\ robots[lastCall.robotId].status # "idle"
  /\ robots[lastCall.robotId].lastUpdated < now

\* ----------------------------------------------------------------------- C11
\* C11: the clock never going back, a COMPLETED mission has assignedAt,
\* startedAt and completedAt set with createdAt <= assignedAt <= startedAt <=
\* completedAt; startedAt is set only if assignedAt is, completedAt only if
\* startedAt is, and completedAt and cancelledAt are never both set.
C11_MonotonicTimestamps ==
  \A id \in DOMAIN missions :
    LET m == missions[id] IN
    /\ m.status = "completed" =>
         /\ m.assignedAt # NoTime /\ m.startedAt # NoTime /\ m.completedAt # NoTime
         /\ m.createdAt <= m.assignedAt
         /\ m.assignedAt <= m.startedAt
         /\ m.startedAt <= m.completedAt
    /\ m.startedAt # NoTime => m.assignedAt # NoTime
    /\ m.completedAt # NoTime => m.startedAt # NoTime
    /\ ~(m.completedAt # NoTime /\ m.cancelledAt # NoTime)

\* a mission has been completed at a later time than it was started
C11_Witness ==
  \E id \in DOMAIN missions :
    /\ missions[id].status = "completed"
    /\ missions[id].startedAt < missions[id].completedAt

\* ----------------------------------------------------------------------- C12
\* C12: assignMissionToAvailableRobot returns a robot if and only if some
\* robot is IDLE at the call; the robot returned is then ASSIGNED and holds
\* the given mission id; when no robot is IDLE the call returns null and
\* changes no robot.
C12_AssignIffIdle ==
  [][lastCall'.op = "assignMissionToAvailableRobot" =>
       LET idle == {r \in RobotIds : robots[r].status = "idle"} IN
       /\ ~lastCall'.error
       /\ lastCall'.ret = "robot" <=> idle # {}
       /\ lastCall'.ret = "robot" =>
            /\ lastCall'.val \in idle
            /\ robots'[lastCall'.val].status = "assigned"
            /\ robots'[lastCall'.val].currentMissionId = lastCall'.missionId
       /\ idle = {} => lastCall'.ret = "null" /\ robots' = robots
    ]_vars

\* the call has returned the second robot, the first one being on a mission
C12_Witness ==
  /\ lastCall.op = "assignMissionToAvailableRobot"
  /\ lastCall.ret = "robot"
  /\ lastCall.val # getAllRobots[1]
  /\ robots[getAllRobots[1]].status # "idle"

\* ----------------------------------------------------------------------- C13
Terminal(m) == m.status \in {"completed", "cancelled"}

\* C13: cleanupCompletedMissions(maxAgeMs) removes exactly the COMPLETED and
\* CANCELLED missions created before now - maxAgeMs, returns their number,
\* and leaves every other mission present and unchanged.
C13_CleanupRemovesOld ==
  [][\A olderThanMs \in CleanupAges :
       CleanupCompletedMissions(olderThanMs) =>
         LET old == {id \in DOMAIN missions :
                       /\ Terminal(missions[id])
                       /\ missions[id].createdAt < now - olderThanMs} IN
         /\ ~lastCall'.error
         /\ lastCall'.val = Cardinality(old)
         /\ DOMAIN missions' = DOMAIN missions \ old
         /\ \A id \in DOMAIN missions' : missions'[id] = missions[id]
    ]_vars

\* a cleanup has removed one finished mission and kept another, created
\* within the window
C13_Witness ==
  /\ lastCall.op = "cleanupCompletedMissions"
  /\ lastCall.val = 1
  /\ \E id \in DOMAIN missions : Terminal(missions[id])

\* ----------------------------------------------------------------------- C14
\* C14: cleanupCompletedMissions(0) removes every COMPLETED or CANCELLED
\* mission the registry holds at the call, one created at the current clock
\* value included.
C14_CleanupZeroRemovesAll ==
  [][CleanupCompletedMissions(0) =>
       \A id \in DOMAIN missions :
         Terminal(missions[id]) => id \notin DOMAIN missions'
    ]_vars

\* ----------------------------------------------------------------------- C15
\* the three timers are armed once each, or not at all
Armed(n) ==
  /\ \A c \in DOMAIN intervals : intervals[c] = n
  /\ (missionGenerationTimer # NoTime) <=> (n = 1)
  /\ (stateTransitionTimer # NoTime) <=> (n = 1)
  /\ (cleanupTimer # NoTime) <=> (n = 1)

\* C15: start() on a running engine raises an Error and leaves the running
\* flag and the timers as they were; over any sequence of start() and stop()
\* calls each of the three timers has at most one armed instance, and it is
\* armed if and only if the engine is running.
C15_StartOnce ==
  /\ [](Armed(IF isSimulationRunning THEN 1 ELSE 0))
  /\ [][(lastCall'.op = "start" /\ isSimulationRunning) =>
          (lastCall'.error /\ UNCHANGED Timers)]_vars

\* a start() has failed on a running engine that has generated missions
C15_Witness ==
  /\ lastCall.op = "start"
  /\ lastCall.error
  /\ isSimulationRunning
  /\ DOMAIN missions # {}
  /\ Armed(1)

\* ----------------------------------------------------------------------- C16
\* C16: stop() on an engine that is not running changes nothing and emits
\* nothing; stop() on a running engine clears the running flag and disarms
\* the three timers; while the engine is not running no callback runs and no
\* robot or mission changes.
C16_StopDisarms ==
  [][/\ (lastCall'.op = "stop" /\ ~isSimulationRunning) =>
          /\ ~lastCall'.error
          /\ emitted' = <<>>
          /\ UNCHANGED <<robots, missions, nextId, Timers>>
     /\ (lastCall'.op = "stop" /\ isSimulationRunning) =>
          /\ ~lastCall'.error
          /\ ~isSimulationRunning'
          /\ Armed(0)'
          /\ Events(emitted', "simulationStopped") # {}
     /\ ~isSimulationRunning =>
          /\ lastCall'.op \in {"start", "stop", "none"}
          /\ UNCHANGED <<robots, missions, nextId>>
    ]_vars

\* the engine has been stopped for longer than the longest ASSIGNED dwell
\* and a robot is still ASSIGNED
C16_Witness ==
  /\ ~isSimulationRunning
  /\ lastCall.op = "none"
  /\ \E r \in RobotIds :
       /\ robots[r].status = "assigned"
       /\ now - robots[r].lastUpdated > STATE_DURATIONS.ASSIGNED_TO_EN_ROUTE.max

\* ----------------------------------------------------------------------- C17
\* C17: a generation tick adds exactly 2 new missions to the registry, whether
\* or not a robot is available, so that after N ticks and no cleanup the
\* registry holds 2N missions.
C17_TwoPerTick ==
  /\ [](Cardinality(DOMAIN missions) = 2 * ((nextId - 1) \div MISSIONS_PER_TICK))
  /\ [][lastCall'.op = "generateMissions" =>
          /\ DOMAIN missions \subseteq DOMAIN missions'
          /\ Cardinality(DOMAIN missions' \ DOMAIN missions) = 2
          /\ \A id \in DOMAIN missions : missions'[id] = missions[id]]_vars

\* the second tick has found every robot on a mission and assigned nothing
C17_Witness ==
  /\ lastCall.op = "generateMissions"
  /\ Events(emitted, "missionAssigned") = {}
  /\ Cardinality(DOMAIN missions) = 4
  /\ NonIdle(robots) = RobotIds

C19_UnassignedStaysCreated ==
  [][\A id \in DOMAIN missions :
       missions[id].status = "created" =>
         /\ id \in DOMAIN missions'
         /\ missions'[id] = missions[id]
         /\ \A r \in DOMAIN robots : robots'[r].currentMissionId # id
    ]_vars

\* the cleanup has just run, the robot has been through a cycle and has taken
\* a mission of a later tick, and the mission that found no robot at the
\* first tick is still CREATED
C19_Witness ==
  /\ lastCall.op = "performCleanup"
  /\ MISSIONS_PER_TICK \in DOMAIN missions
  /\ missions[MISSIONS_PER_TICK].status = "created"
  /\ \E id \in DOMAIN missions :
       /\ id > MISSIONS_PER_TICK
       /\ missions[id].status \in {"assigned", "in_progress"}
  /\ \E id \in DOMAIN missions : missions[id].status = "completed"

\* ----------------------------------------------------------------------- C18
\* the statuses of a cycle that nothing cuts short
CycleEdges ==
  {<<"idle", "assigned">>, <<"assigned", "en_route">>, <<"en_route", "delivering">>,
   <<"delivering", "completed">>, <<"completed", "idle">>}

\* the longest a cycle takes from the assignment: the mission is started
\* within ASSIGNED_TO_EN_ROUTE.max, completed within DELIVERING_TO_COMPLETED.max
\* of its start, and the robot released within COMPLETED_TO_IDLE.max
CycleLength ==
  STATE_DURATIONS.ASSIGNED_TO_EN_ROUTE.max + STATE_DURATIONS.DELIVERING_TO_COMPLETED.max
  + STATE_DURATIONS.COMPLETED_TO_IDLE.max

\* the missions assigned early enough for a whole cycle before the clock of
\* the run stops
CycleMissions ==
  1..(MISSIONS_PER_TICK * ((MaxCycleTime - CycleLength) \div MISSION_GENERATION_INTERVAL))

\* robot r has been put in ASSIGNED with mission m by a generation tick
Takes(r, m) ==
  /\ robots[r].status = "assigned"
  /\ robots[r].currentMissionId = m
  /\ m \in DOMAIN missions
  /\ missions[m].status = "assigned"

\* robot r is back in IDLE and mission m is COMPLETED
Released(r, m) ==
  /\ robots[r].status = "idle"
  /\ robots[r].currentMissionId = Null
  /\ m \in DOMAIN missions
  /\ missions[m].status = "completed"
  /\ missions[m].robotId = r

\* C18: in a run with fair callbacks and no cancellation, every robot a
\* generation tick puts in ASSIGNED goes assigned -> en_route -> delivering ->
\* completed -> idle, one status after the other, and ends IDLE with its
\* mission COMPLETED.
C18_CycleCompletes ==
  /\ [][\A r \in DOMAIN robots :
         LET path == StatusPath(r, robots, emitted', robots') IN
         \A i \in 1..(Len(path) - 1) :
           path[i] = path[i + 1] \/ <<path[i], path[i + 1]>> \in CycleEdges
      ]_vars
  /\ \A r \in 1..MaxCycleRobots : \A m \in CycleMissions :
       Takes(r, m) ~> Released(r, m)

\* a sweep has just released the robot of a completed mission
C18_Witness ==
  /\ lastCall.op = "processStateTransitions"
  /\ \E r \in DOMAIN robots : \E m \in CycleMissions :
       /\ Released(r, m)
       /\ \E i \in 1..Len(emitted) :
            /\ emitted[i].event = "statusChanged"
            /\ emitted[i].robotId = r
            /\ emitted[i].status = "idle"

\* ----------------------------------------------------------------------- C23
\* C23: createMission returns an id no mission of the registry has, so the
\* registry holds one mission more after the call than before it.
C23_FreshId ==
  [][lastCall'.op = "createMission" /\ nextId' = nextId + 1 =>
       /\ lastCall'.missionId \notin DOMAIN missions
       /\ Cardinality(DOMAIN missions') = Cardinality(DOMAIN missions) + 1
    ]_vars

\* ----------------------------------------------------------------------- C24
\* C24: whatever cancellations came before it, a sweep raises no Error and
\* does not change the status of a robot whose mission is CANCELLED.
C24_SweepAfterCancel ==
  [][lastCall'.op = "processStateTransitions" =>
       /\ lastCall'.ret = "false"
       /\ \A r \in RobotIds :
            LET missionId == robots[r].currentMissionId IN
            (/\ missionId \in DOMAIN missions
             /\ missions[missionId].status = "cancelled")
            => robots'[r].status = robots[r].status
    ]_vars

\* ----------------------------------------------------------------------- C25
\* robot r and its mission agree and the longest dwell of its status has
\* passed: whatever delay is drawn, a sweep that reaches r advances it
Eligible(r) ==
  LET missionId == robots[r].currentMissionId IN
  /\ missionId \in DOMAIN missions
  /\ \/ /\ robots[r].status = "assigned"
        /\ missions[missionId].status = "assigned"
        /\ now - missions[missionId].assignedAt >= STATE_DURATIONS.ASSIGNED_TO_EN_ROUTE.max
     \/ /\ robots[r].status = "en_route"
        /\ missions[missionId].status = "in_progress"
        /\ now - missions[missionId].startedAt >= STATE_DURATIONS.EN_ROUTE_TO_DELIVERING.max
     \/ /\ robots[r].status = "delivering"
        /\ missions[missionId].status = "in_progress"
        /\ now - missions[missionId].startedAt >= STATE_DURATIONS.DELIVERING_TO_COMPLETED.max
     \/ /\ robots[r].status = "completed"
        /\ missions[missionId].status = "completed"
        /\ now - missions[missionId].completedAt >= STATE_DURATIONS.COMPLETED_TO_IDLE.max

\* C25: a sweep advances every robot that is eligible when the sweep begins,
\* also when the transition of another robot raises an Error in that sweep.
C25_FaultIsolation ==
  [][lastCall'.op = "processStateTransitions" =>
       \A r \in RobotIds : Eligible(r) => robots'[r].status # robots[r].status
    ]_vars

\* ----------------------------------------------------------------------- C26
\* the callbacks of the three intervals
Callbacks == {"generateMissions", "processStateTransitions", "performCleanup"}

\* the interval stays armed: it is due when it was, or one period from now
\* when it is the one that has just fired
StaysArmed(timer, next, period) ==
  /\ timer # NoTime
  /\ next = timer \/ (Due(timer) /\ next = now + period)

\* C26: no Error leaves a callback of an interval, and a callback leaves the
\* engine running with every interval armed once, the one that fired due one
\* period later, whether or not an Error was raised inside it.
C26_CallbacksContainErrors ==
  [][lastCall'.op \in Callbacks =>
       /\ ~lastCall'.error
       /\ isSimulationRunning'
       /\ intervals' = intervals
       /\ StaysArmed(missionGenerationTimer, missionGenerationTimer',
                     MISSION_GENERATION_INTERVAL)
       /\ StaysArmed(stateTransitionTimer, stateTransitionTimer',
                     STATE_TRANSITION_INTERVAL)
       /\ StaysArmed(cleanupTimer, cleanupTimer', CLEANUP_INTERVAL)
       /\ \/ missionGenerationTimer' # missionGenerationTimer
          \/ stateTransitionTimer' # stateTransitionTimer
          \/ cleanupTimer' # cleanupTimer
    ]_vars

\* a sweep caught an Error earlier (a robot is EN_ROUTE on a CANCELLED mission
\* that was never started), and a later sweep has just advanced a robot
C26_Witness ==
  /\ lastCall.op = "processStateTransitions"
  /\ lastCall.ret = "false"
  /\ emitted # <<>>
  /\ \E r \in RobotIds :
       LET missionId == robots[r].currentMissionId IN
       /\ robots[r].status = "en_route"
       /\ missionId \in DOMAIN missions
       /\ missions[missionId].status = "cancelled"
       /\ missions[missionId].startedAt = NoTime

\* ----------------------------------------------------------------------- C27
\* mission id and robot r have been bound to each other at this instant
BoundNow(ms, rs, id, r) ==
  /\ ms[id].status = "assigned"
  /\ ms[id].robotId = r
  /\ ms[id].assignedAt = now
  /\ rs[r].status = "assigned"
  /\ rs[r].currentMissionId = id

\* mission id has been left without a robot
Unbound(ms, rs, id) ==
  /\ ms[id].status = "created"
  /\ ms[id].robotId = Null
  /\ ms[id].assignedAt = NoTime
  /\ \A r \in DOMAIN rs : rs[r].currentMissionId # id

\* C27: at the end of a generation tick each mission it created is either
\* ASSIGNED to a robot that was IDLE and is now ASSIGNED with that mission, or
\* CREATED with no robot; the missions are served in the order of creation as
\* long as IDLE robots last, and no other robot changes.
C27_AssignedTogether ==
  [][lastCall'.op = "generateMissions" =>
       LET created == DOMAIN missions' \ DOMAIN missions
           idle == {r \in RobotIds : robots[r].status = "idle"}
           served == {id \in created : missions'[id].status = "assigned"}
       IN  /\ \A id \in created :
                \/ \E r \in idle : BoundNow(missions', robots', id, r)
                \/ Unbound(missions', robots', id)
           /\ \A id \in served : \A other \in created : other < id => other \in served
           /\ Cardinality(served) =
                IF Cardinality(idle) < Cardinality(created) THEN Cardinality(idle)
                ELSE Cardinality(created)
           /\ \A r \in RobotIds :
                robots'[r] # robots[r] =>
                  \E id \in served : missions'[id].robotId = r
    ]_vars

\* a generation tick found one IDLE robot: its first mission is bound to the
\* robot, its second is left CREATED
C27_Witness ==
  /\ lastCall.op = "generateMissions"
  /\ \E id \in DOMAIN missions : \E r \in RobotIds :
       /\ id + 1 \in DOMAIN missions
       /\ BoundNow(missions, robots, id, r)
       /\ Unbound(missions, robots, id + 1)
       /\ missions[id + 1].createdAt = now

\* ----------------------------------------------------------------------- C28
\* C28: a sweep moves a robot to COMPLETED only from DELIVERING, and only when
\* the robot has been DELIVERING (lastUpdated is the time of its last status
\* change) for at least DELIVERING_TO_COMPLETED.min.
C28_DeliveringDwell ==
  [][lastCall'.op = "processStateTransitions" =>
       \A r \in DOMAIN robots :
         (robots'[r].status = "completed" /\ robots[r].status # "completed") =>
           /\ robots[r].status = "delivering"
           /\ now - robots[r].lastUpdated >= STATE_DURATIONS.DELIVERING_TO_COMPLETED.min
    ]_vars

\* ----------------------------------------------------------------------- C29
\* C29: a sweep moves an ASSIGNED robot to EN_ROUTE only when its mission has
\* been assigned for at least ASSIGNED_TO_EN_ROUTE.min, it starts the mission
\* in the same sweep, and it does move the robot once the mission has been
\* assigned for ASSIGNED_TO_EN_ROUTE.max.
C29_AssignedDwell ==
  [][lastCall'.op = "processStateTransitions" =>
       \A r \in RobotIds :
         LET missionId == robots[r].currentMissionId
             elapsed == now - missions[missionId].assignedAt
         IN  robots[r].status = "assigned" /\ missionId \in DOMAIN missions =>
               /\ robots'[r].status \in {"assigned", "en_route"}
               /\ robots'[r].status = "en_route" =>
                    /\ elapsed >= STATE_DURATIONS.ASSIGNED_TO_EN_ROUTE.min
                    /\ missions'[missionId].status = "in_progress"
                    /\ missions'[missionId].startedAt = now
               /\ elapsed >= STATE_DURATIONS.ASSIGNED_TO_EN_ROUTE.max =>
                    robots'[r].status = "en_route"
    ]_vars

\* ----------------------------------------------------------------------- C30
\* C30: whenever some robot is IDLE, assignMissionToAvailableRobot returns
\* the IDLE robot with the lowest id, whatever the mission passed and
\* whatever was assigned and cancelled before.
C30_FirstAvailable ==
  [][lastCall'.op = "assignMissionToAvailableRobot" =>
       \A r \in RobotIds :
         (robots[r].status = "idle" /\ \A q \in 1..(r - 1) : robots[q].status # "idle") =>
           /\ lastCall'.ret = "robot"
           /\ lastCall'.val = r
    ]_vars

\* the call has returned the first robot again, after that robot's mission
\* was cancelled, while the second robot is still on its mission
C30_Witness ==
  /\ lastCall.op = "assignMissionToAvailableRobot"
  /\ lastCall.ret = "robot"
  /\ lastCall.val = getAllRobots[1]
  /\ robots[getAllRobots[2]].status = "assigned"
  /\ robots[getAllRobots[2]].currentMissionId # lastCall.missionId

\* ----------------------------------------------------------------------- C21
\* the changes of status a mission of the MissionService may make
ValidTransitions ==
  {<<"pending", "assigned">>, <<"pending", "cancelled">>,
   <<"assigned", "in_progress">>, <<"assigned", "cancelled">>,
   <<"in_progress", "completed">>, <<"in_progress", "cancelled">>}

\* C21: in a run of the MissionService, with its creation ticks, processing
\* ticks, start timeouts and cancelMission calls in any order, the status of
\* a mission changes only along pending -> assigned, pending -> cancelled,
\* assigned -> in_progress, assigned -> cancelled, in_progress -> completed
\* and in_progress -> cancelled; the status of a COMPLETED or CANCELLED
\* mission never changes again.
C21_ServiceLifecycle ==
  [][\A m \in DOMAIN missionService :
       missionService'[m].status # missionService[m].status =>
         <<missionService[m].status, missionService'[m].status>> \in ValidTransitions
    ]_vars

\* ----------------------------------------------------------------------- C22
\* the missions in ASSIGNED or IN_PROGRESS that reference robot r
Holders(r) ==
  {m \in DOMAIN missionService :
     /\ missionService[m].status \in {"assigned", "in_progress"}
     /\ missionService[m].assignedRobotId = r}

\* C22: in a run of the MissionService and the RobotService, with creation
\* ticks, processing ticks, start and return-to-idle timeouts and
\* cancelMission calls in any order, at most one mission in ASSIGNED or
\* IN_PROGRESS references a robot, and that robot is not IDLE and its
\* currentMissionId is that mission.
C22_OneMissionPerRobot ==
  \A r \in DOMAIN robotService :
    /\ Cardinality(Holders(r)) <= 1
    /\ \A m \in Holders(r) :
         /\ robotService[r].status # "idle"
         /\ robotService[r].currentMissionId = m

\* ----------------------------------------------------------------------- C31
\* C31: after a burst of createMission calls, each followed by
\* assignMissionToAvailableRobot on the mission created, no more robots than
\* the fleet has are non-IDLE, and every non-IDLE robot's currentMissionId
\* is a mission of the registry whose robotId is that robot.
C31_BurstBound ==
  lastCall.op = "assignMissionToAvailableRobot" =>
    LET active == {r \in DOMAIN robots : robots[r].status # "idle"} IN
    /\ Cardinality(active) <= NumRobots
    /\ \A r \in active :
         /\ robots[r].currentMissionId \in DOMAIN missions
         /\ missions[robots[r].currentMissionId].robotId = r

\* ----------------------------------------------------------------------- C32
\* the robots that are not IDLE and hold mission m
Carriers(m) ==
  {r \in DOMAIN robots : robots[r].status # "idle" /\ robots[r].currentMissionId = m}

RobotOperations ==
  {"Robot.assignMission", "Robot.startMission", "Robot.startDelivering",
   "Robot.completeMission", "Robot.returnToIdle", "Robot.cancelCurrentMission",
   "assignMissionToAvailableRobot", "cancelRobotMission"}

Cancellations == {"Robot.cancelCurrentMission", "cancelRobotMission"}

\* the 'statusChanged' notification of robot r for the state it is left in
StatusChangedOf(rs, r) ==
  [event |-> "statusChanged", robotId |-> r, status |-> rs[r].status,
   missionId |-> IF rs[r].status = "idle" THEN Null ELSE rs[r].currentMissionId]

C34_Snapshots ==
  [][/\ lastCall'.op = "mission.status =" => missions' = missions
     /\ (returned' # Null /\ lastCall'.op # "mission.status =") => Held' = seen'
    ]_vars

\* ----------------------------------------------------------------------- C35
\* C35: between the callbacks of a run of generation ticks, sweeps, cleanups
\* and cancelRobotMission calls, a robot in ASSIGNED holds a registered
\* mission in 'assigned' whose robotId is the robot, a robot in EN_ROUTE or
\* DELIVERING holds a registered mission in 'in_progress', and a robot in
\* COMPLETED holds a registered mission in 'completed'.
C35_StatusCorrespondence ==
  \A r \in DOMAIN robots :
    LET m == robots[r].currentMissionId IN
    /\ robots[r].status = "assigned" =>
         /\ m \in DOMAIN missions
         /\ missions[m].status = "assigned"
         /\ missions[m].robotId = r
    /\ robots[r].status \in {"en_route", "delivering"} =>
         /\ m \in DOMAIN missions
         /\ missions[m].status = "in_progress"
    /\ robots[r].status = "completed" =>
         /\ m \in DOMAIN missions
         /\ missions[m].status = "completed"

\* a robot is COMPLETED on a completed mission, after a cancellation earlier
\* in the run took a mission from it
C35_Witness ==
  /\ \E r \in DOMAIN robots :
       /\ robots[r].status = "completed"
       /\ missions[robots[r].currentMissionId].status = "completed"
       /\ \E m \in DOMAIN missions :
            missions[m].status = "cancelled" /\ missions[m].robotId = r

\* ----------------------------------------------------------------------- C36
\* C36: in a run of generation ticks, sweeps and cleanups with stop() and
\* start() calls in between, a cleanup removes no mission that a robot that
\* is not IDLE holds, and no robot holds a mission id the registry does not
\* have.
C36_CleanupKeepsHeld ==
  [][lastCall'.op = "performCleanup" =>
       \A r \in DOMAIN robots :
         robots[r].status # "idle" =>
           /\ robots[r].currentMissionId \in DOMAIN missions =>
                robots[r].currentMissionId \in DOMAIN missions'
           /\ robots'[r].currentMissionId \in DOMAIN missions'
    ]_vars

\* C37: in a run of the scheduler's callbacks and cancelRobotMission calls on a
\* wired engine, no call on a robot or on the registry raises: no callback
\* catches an Error and no cancellation ends with one.
C37_NoRaise ==
  [][/\ lastCall'.op \in {"generateMissions", "processStateTransitions",
                          "performCleanup"}
          => lastCall'.ret = "false"
     /\ lastCall'.op = "cancelRobotMission" => ~lastCall'.error
    ]_vars

\* a cancellation has returned while one mission is completed and another
\* cancelled: sweeps have taken a robot through its states, and the handler of
\* the engine has run
C37_Witness ==
  /\ lastCall.op = "cancelRobotMission"
  /\ lastCall.ret = "true"
  /\ \E m \in DOMAIN missions : missions[m].status = "completed"
  /\ \E m \in DOMAIN missions : missions[m].status = "cancelled"

\* the state a robot in state s moves to next
LifecycleSuccessor(s) ==
  CASE s = "idle" -> "assigned"
    [] s = "assigned" -> "en_route"
    [] s = "en_route" -> "delivering"
    [] s = "delivering" -> "completed"
    [] s = "completed" -> "idle"

\* C38: one state transition sweep moves a robot by at most one state: after
\* the sweep the robot is in the state it was in or in that state's successor.
C38_OneStatePerSweep ==
  [][lastCall'.op = "processStateTransitions" =>
       \A r \in DOMAIN robots :
         \/ robots'[r].status = robots[r].status
         \/ robots'[r].status = LifecycleSuccessor(robots[r].status)
    ]_vars

\* C39: cancelRobotMission on a robot that is COMPLETED, on a wired engine,
\* raises nothing, returns the robot to IDLE with no mission, and leaves the
\* mission as it was: COMPLETED, completedAt set, cancelledAt not set.
C39_CancelCompleted ==
  [][\A r \in DOMAIN robots :
       (/\ lastCall'.op = "cancelRobotMission"
        /\ lastCall'.robotId = r
        /\ robots[r].status = "completed")
       => LET m == robots[r].currentMissionId IN
          /\ ~lastCall'.error
          /\ robots'[r].status = "idle"
          /\ robots'[r].currentMissionId = Null
          /\ missions'[m] = missions[m]
          /\ missions'[m].status = "completed"
          /\ missions'[m].completedAt # NoTime
          /\ missions'[m].cancelledAt = NoTime
    ]_vars

\* a cancellation has returned and the mission its 'missionCancelled' event
\* names is COMPLETED: the robot was cancelled while COMPLETED
C39_Witness ==
  /\ lastCall.op = "cancelRobotMission"
  /\ lastCall.ret = "true"
  /\ robots[lastCall.robotId].status = "idle"
  /\ \E i \in DOMAIN emitted :
       /\ emitted[i].event = "missionCancelled"
       /\ emitted[i].robotId = lastCall.robotId
       /\ missions[emitted[i].missionId].status = "completed"

\* C40: a mission is bound to at most one robot: whenever
\* assignMissionToAvailableRobot or Robot.assignMission binds a robot to a
\* mission, no other robot holds that mission and the mission has not ended.
C40_OneRobotPerMission ==
  [][lastCall'.op \in {"assignMissionToAvailableRobot", "Robot.assignMission"} =>
       \A r \in DOMAIN robots :
         LET m == robots'[r].currentMissionId IN
         (m # Null /\ m # robots[r].currentMissionId) =>
           /\ \A other \in DOMAIN robots \ {r} : robots'[other].currentMissionId # m
           /\ m \in DOMAIN missions' =>
                missions'[m].status \notin {"completed", "cancelled"}
    ]_vars

====
